---- MODULE Spec2Model ----
(***************************************************************************)
(* Processing pipeline of src/processor/server.py: the messages table, the *)
(* HTTP handlers (ingest, retry, delete) and the detached process_message  *)
(* coroutines, one step of a coroutine per stretch of code between two     *)
(* awaits of the single event loop.                                        *)
(***************************************************************************)
EXTENDS Integers, Sequences, FiniteSets, TLC

\* ---------------------------------------------------------------- bounds
\* process_message coroutines created in a run; every record is created
\* together with one, so this also bounds the ids assigned.
MaxTasks == 2

\* ------------------------------------------------------ program constants
BodyLimit == 2000
ErrorStatusFloor == 400

\* ----------------------------------------------------------- value model
\* A nullable column / Optional value: <<>> is NULL (None), <<v>> is v.
None == <<>>
Some(v) == <<v>>
IsNone(o) == o = <<>>
Val(o) == o[1]

Min(a, b) == IF a <= b THEN a ELSE b

\* Inputs drawn by the environment.
MessageIdValues == {"m1"}
ChannelValues == {"Ops"}
PayloadValues == {"p1"}
ResponseCodes == {399, 400}
\* A response text is modelled by its length.
ResponseTexts == {7, 2001}

\* TeamsResolution (the fields the store and the state machine read).
TeamsResolution == [messageId : {None} \cup {Some(m) : m \in MessageIdValues},
                    channel : ChannelValues]

VARIABLES
  N8N_WEBHOOK_URL,  \* TRUE iff the webhook URL is configured
  rows,             \* the messages table: id -> row, for the ids stored
  seq,              \* sqlite_sequence of the AUTOINCREMENT key: largest id assigned
  tasks,            \* the process_message coroutines created so far
  response,         \* what the last HTTP handler that ran returned or raised
  raced             \* ids on which a retry ran while a task for the id was in flight

vars == <<N8N_WEBHOOK_URL, rows, seq, tasks, response, raced>>

\* The clock, and src/src/scheduler/scheduler.py.
VARIABLES
  now,        \* the reading of the clock (utcnow(), datetime.now())
  scheduler,  \* ExtractionScheduler: the job added and its executions
  called      \* the arguments of the last direct call of update_message

svars == <<now, scheduler, called>>

\* ------------------------------------------------------------ the store
\* utcnow(): the clock, to the second.
utcnow == now

\* INSERT of insert_message: status 'received', every optional column NULL,
\* created_at and updated_at the same reading of the clock.
NewRow(bundle) ==
  [message_id |-> bundle.messageId,
   channel |-> bundle.channel,
   status |-> "received",
   jira_payload_json |-> None,
   n8n_response_code |-> None,
   n8n_response_body |-> None,
   error |-> None,
   created_at |-> utcnow,
   updated_at |-> utcnow]

\* Mutant: the table without its unique index.
UniqueViolation_NoIndex(r, bundle) == FALSE

\* The unique partial index idx_messages_message_id rejects the insert.
UniqueViolation(r, bundle) ==
  /\ ~IsNone(bundle.messageId)
  /\ \E i \in DOMAIN r : r[i].message_id = bundle.messageId

\* Mutant: id INTEGER PRIMARY KEY without AUTOINCREMENT, the rowid is one
\* more than the largest rowid stored.
AUTOINCREMENT_MaxRowid(r, s) ==
  IF DOMAIN r = {} THEN 1
  ELSE (CHOOSE i \in DOMAIN r : \A j \in DOMAIN r : j <= i) + 1

\* id INTEGER PRIMARY KEY AUTOINCREMENT: cursor.lastrowid of the INSERT is one
\* more than the largest id the table ever assigned (sqlite_sequence).
AUTOINCREMENT(r, s) == s + 1

insert_message(r, id, bundle) ==
  [i \in DOMAIN r \cup {id} |-> IF i = id THEN NewRow(bundle) ELSE r[i]]

\* Mutant: INSERT OR REPLACE in place of UPDATE ... WHERE id = ?.
update_message_Upsert(r, id, status, jira_payload, n8n_code, n8n_body, error) ==
  [i \in DOMAIN r \cup {id} |->
     IF i = id
     THEN [message_id |-> None, channel |-> None,
           status |-> IF IsNone(status) THEN "received" ELSE Val(status),
           jira_payload_json |-> jira_payload,
           n8n_response_code |-> n8n_code,
           n8n_response_body |-> n8n_body,
           error |-> error,
           created_at |-> utcnow, updated_at |-> utcnow]
     ELSE r[i]]

\* Mutant: every column is set, to NULL when its argument is None.
update_message_SetsAll(r, id, status, jira_payload, n8n_code, n8n_body, error) ==
  IF id \notin DOMAIN r THEN r
  ELSE [r EXCEPT ![id] =
         [@ EXCEPT
            !.status = IF IsNone(status) THEN @ ELSE Val(status),
            !.jira_payload_json = jira_payload,
            !.n8n_response_code = n8n_code,
            !.n8n_response_body = n8n_body,
            !.error = error,
            !.updated_at = utcnow]]

\* update_message: a column is set only when its argument is not None;
\* UPDATE ... WHERE id = ? on an absent id changes nothing.
update_message(r, id, status, jira_payload, n8n_code, n8n_body, error) ==
  IF id \notin DOMAIN r THEN r
  ELSE [r EXCEPT ![id] =
         [@ EXCEPT
            !.status = IF IsNone(status) THEN @ ELSE Val(status),
            !.jira_payload_json = IF IsNone(jira_payload) THEN @ ELSE jira_payload,
            !.n8n_response_code = IF IsNone(n8n_code) THEN @ ELSE n8n_code,
            !.n8n_response_body = IF IsNone(n8n_body) THEN @ ELSE n8n_body,
            !.error = IF IsNone(error) THEN @ ELSE error,
            !.updated_at = utcnow]]

\* Mutant: DELETE FROM messages without its WHERE clause.
delete_message_db_NoWhere(r, id) == <<>>

\* DELETE FROM messages WHERE id = ?
delete_message_db(r, id) == [i \in DOMAIN r \ {id} |-> r[i]]

\* fetch_message: SELECT * FROM messages WHERE id = ?; KeyError when no row.
fetch_message_raises(r, id) == id \notin DOMAIN r

\* response.text[:2000]
Truncate(text) == Min(text, BodyLimit)

\* ---------------------------------------------------- exception messages
\* str(exc) of the AgentError raised by TeamsJiraAgent.infer
AgentErrorText == "Invalid LLM response"
\* str(exc) of any other exception escaping the await of agent.infer
FaultText == "unexpected fault"
\* str(exc) of an exception raised by http_client.post (timeout, reset)
TransportErrorText == "transport error"
\* str(exc) of the RuntimeError raised by forward_to_n8n on a status >= 400
\* (a text is modelled by its length, written here in its place)
N8nErrorText(code, text) ==
  "n8n responded with " \o ToString(code) \o ": " \o ToString(text)

\* ------------------------------------------------------------ coroutines
\* pc of a process_message coroutine:
\*   pending     created by asyncio.create_task, not yet run
\*   classifying suspended in  await agent.infer(bundle)
\*   posting     suspended in  await http_client.post(...)
\*   raising     inside forward_to_n8n after the n8n_error write, the
\*               RuntimeError not yet caught (no await in between)
\*   done        returned
\* Mutant: the coroutine is run up to Classify by the handler itself.
create_task_Eager(id, bundle) ==
  [id |-> id, bundle |-> bundle, pc |-> "classifying", payload |-> None,
   posted |-> FALSE, exc |-> None]

create_task(id, bundle) ==
  [id |-> id, bundle |-> bundle, pc |-> "pending", payload |-> None,
   posted |-> FALSE, exc |-> None]

\* Mutant: a coroutine that ends is run again from the start.
Returned_Requeued(task) ==
  [task EXCEPT !.pc = "pending", !.payload = None, !.exc = None]

\* A coroutine that returned: its frame (payload, exception) is gone; that it
\* called http_client.post stays a fact of the run.
Returned(task) == [task EXCEPT !.pc = "done", !.payload = None, !.exc = None]

TaskIds == 1..Len(tasks)
InFlight(t) == tasks[t].pc /= "done"
InFlightFor(id) == {t \in TaskIds : tasks[t].id = id /\ InFlight(t)}

\* The event loop runs one coroutine at a time: between two awaits nothing
\* else runs, so nothing interleaves with a coroutine that is "raising".
Idle == \A t \in TaskIds : tasks[t].pc /= "raising"

\* ------------------------------------------- the Graph client's state
\* src/src/core/graph_client.py has a state of its own, which no step of the
\* processor touches.
\* Time is counted in ticks of rate_limit_pause (0.5 s), and every instant
\* the program keeps is held as its distance from time.time() at the moment
\* of the state: an instant to come (retry_after, the end of a sleep) as the
\* ticks left until it, 0 once it is reached or past; last_request_time as
\* the ticks elapsed since it, up to the pause, beyond which the code
\* treats all values alike.
VARIABLES
  client,  \* GraphAPIClient: elapsed (time.time() - last_request_time),
           \* retry_after (retry_after - time.time()), request_count,
           \* access_token, token_left (token_expires_at - time.time()),
           \* and the number of token exchanges made with MSAL
  calls,   \* the request coroutines running on the client, one per caller
  armed,   \* ticks left until the latest instant t + d of the 429 responses
           \* received so far
  attempted, \* since: ticks since the last HTTP attempt through the client;
           \* gap: ticks there were between the last two attempts (both
           \* up to the pause)
  drain    \* the get_paginated coroutine

gvars == <<client, calls, armed, attempted, drain>>

\* src/src/core/extractor.py: the frames of TeamsExtractor's coroutines.
VARIABLES
  extraction,     \* extract_messages / _discover_channels, with get_teams
  channel_fetch,  \* _extract_channel_messages
  filtering       \* _apply_filters applied to a list, and to its own result

evars == <<extraction, channel_fetch, filtering>>

allvars == <<vars, gvars, evars, svars>>

\* rate_limit_pause: float = 0.5, the unit of the clock.
rate_limit_pause == 1
TicksPerSecond == 2
Seconds(n) == n * TicksPerSecond

\* The callers sharing the client; each makes one call of request, at any
\* time: while the other's call is running, or after it ended.
Callers == {"a", "b"}

\* result.get("expires_in", 3600) - 300: the lifetime of a token of an hour,
\* which outlasts every run of the model.
DefaultExpiresIn == 3600
ExpiryMargin == 300
LongLived == Seconds(DefaultExpiresIn - ExpiryMargin)

\* The frame of request before it is called; token is the access token its
\* Authorization header carries.
NoCall ==
  [pc |-> "idle", max_retries |-> 0, retry_count |-> 0, backoff_seconds |-> 0,
   wake |-> 0, attempts |-> 0, n429 |-> 0, n5xx |-> 0, nexc |-> 0,
   token |-> None, result |-> "none"]

\* The client after connect(): token number 0, with token_left ticks to its
\* token_expires_at.
Connected(token_left) ==
  [elapsed |-> rate_limit_pause, retry_after |-> 0, request_count |-> 0,
   access_token |-> Some(0), token_left |-> token_left, exchanges |-> 0]

\* The frame of get_paginated before it is called.
NoDrain ==
  [pc |-> "idle", max_pages |-> None, all_items |-> <<>>, page_count |-> 0,
   next_link |-> None, requests |-> 0, pages |-> <<>>, returned |-> None,
   raised |-> None]

\* __init__: last_request_time = 0.0, retry_after = 0, request_count = 0; the
\* wall clock is far past the pause.
GraphIdle ==
  /\ calls = [c \in Callers |-> NoCall]
  /\ armed = 0
  /\ attempted = [since |-> rate_limit_pause, gap |-> rate_limit_pause]
  /\ drain = NoDrain

\* No job was added to the scheduler.
SchedulerIdle ==
  /\ now = 0
  /\ scheduler = [pc |-> "idle"]

\* update_message was not called from outside a handler.
StoreUncalled == called = None

\* No coroutine of the extractor is running.
ExtractorIdle ==
  /\ extraction = [pc |-> "idle"]
  /\ channel_fetch = [pc |-> "idle"]
  /\ filtering = [pc |-> "idle"]

\* The client just connected, with a token of an hour.
GraphInit ==
  /\ client = Connected(LongLived)
  /\ GraphIdle

Init ==
  /\ GraphInit
  /\ ExtractorIdle
  /\ SchedulerIdle /\ StoreUncalled
  /\ N8N_WEBHOOK_URL \in BOOLEAN
  /\ rows = <<>>
  /\ seq = 0
  /\ tasks = <<>>
  /\ response = [op |-> "none", id |-> None, status |-> "none"]
  /\ raced = {}

\* -------------------------------------------------------- HTTP handlers
\* IngestResponse carries the id; the retry and delete handlers answer
\* {"status": ...} or raise HTTPException(404); ingest lets the
\* IntegrityError of the INSERT escape.
Response(op, id, status) == [op |-> op, id |-> id, status |-> status]

\* POST /ingest: insert_message, create_task, return; no await in between.
Ingest(bundle) ==
  /\ Idle
  /\ IF UniqueViolation(rows, bundle)
     THEN /\ response' = Response("ingest", None, "IntegrityError")
          /\ UNCHANGED <<rows, seq, tasks>>
     ELSE /\ Len(tasks) < MaxTasks
          /\ LET record_id == AUTOINCREMENT(rows, seq) IN
               /\ rows' = insert_message(rows, record_id, bundle)
               /\ seq' = record_id
               /\ tasks' = Append(tasks, create_task(record_id, bundle))
               /\ response' = Response("ingest", Some(record_id), "queued")
  /\ UNCHANGED <<N8N_WEBHOOK_URL, raced>>

\* The environment of the test test_ingest_with_api_key: PROCESSOR_API_KEY set
\* to a key, and the X-API-Key header a request carries (None: no header).
ApiKeyValues == {"secret-key"}
ApiKeyHeaders == {None} \cup {Some(k) : k \in ApiKeyValues \cup {"other-key"}}

\* The request as the handler sees it: ingest(bundle) declares no header
\* parameter and no dependency, and nothing in the module reads
\* PROCESSOR_API_KEY, so the header has no part in what the handler does.
IngestRequest(x_api_key, bundle) == Ingest(bundle)

\* The TeamsResolution retry_message rebuilds from the row.
BundleOfRow(row) == [messageId |-> row.message_id, channel |-> row.channel]

\* update_message(record_id, status="queued", error=None)
retry_reset(r, id) == update_message(r, id, Some("queued"), None, None, None, None)

\* POST /messages/{id}/retry
Retry(id) ==
  /\ Idle
  /\ IF id \notin DOMAIN rows
     THEN /\ response' = Response("retry", None, "404")
          /\ UNCHANGED <<rows, tasks, raced>>
     ELSE /\ Len(tasks) < MaxTasks
          /\ rows' = retry_reset(rows, id)
          /\ tasks' = Append(tasks, create_task(id, BundleOfRow(rows[id])))
          /\ raced' = IF InFlightFor(id) /= {} THEN raced \cup {id} ELSE raced
          /\ response' = Response("retry", None, "retrying")
  /\ UNCHANGED <<N8N_WEBHOOK_URL, seq>>

\* DELETE /messages/{id}
Delete(id) ==
  /\ Idle
  /\ IF id \notin DOMAIN rows
     THEN /\ response' = Response("delete", None, "404")
          /\ UNCHANGED rows
     ELSE /\ rows' = delete_message_db(rows, id)
          /\ response' = Response("delete", None, "deleted")
  /\ UNCHANGED <<N8N_WEBHOOK_URL, seq, tasks, raced>>

\* GET /messages/{id}: the record, or HTTPException(404) on the KeyError of
\* fetch_message.
Get(id) ==
  /\ Idle
  /\ response' = IF fetch_message_raises(rows, id)
                 THEN Response("get", None, "404")
                 ELSE Response("get", None, "found")
  /\ UNCHANGED <<N8N_WEBHOOK_URL, rows, seq, tasks, raced>>

\* ------------------------------------------------------- process_message
\* Mutant: the processed write leaves the payload out.
write_processed_StatusOnly(r, id, payload) ==
  update_message(r, id, Some("processed"), None, None, None, None)

\* Mutant: the processed write is put off until after the forward.
write_processed_Later(r, id, payload) == r

\* update_message(record_id, status="processed", jira_payload=payload)
write_processed(r, id, payload) ==
  update_message(r, id, Some("processed"), Some(payload), None, None, None)

\* Mutant: no handler of its own for AgentError, the generic one takes it.
except_AgentError_AsFailure(r, id, msg) ==
  update_message(r, id, Some("failed"), None, None, None, Some(msg))

\* except AgentError: update_message(record_id, status="agent_error", error=str(exc))
except_AgentError(r, id, msg) ==
  update_message(r, id, Some("agent_error"), None, None, None, Some(msg))

\* Mutant: the generic handler only logs.
except_Exception_Swallowed(r, id, msg) == r

\* Mutant: the generic handler puts the record back in the queue.
except_Exception_Requeues(r, id, msg) ==
  update_message(r, id, Some("received"), None, None, None, Some(msg))

\* except Exception: update_message(record_id, status="failed", error=str(exc))
except_Exception(r, id, msg) ==
  update_message(r, id, Some("failed"), None, None, None, Some(msg))

\* Mutant: forward_to_n8n without the check of the URL.
forward_posts_Always(url) == TRUE

\* forward_to_n8n returns at once when no webhook URL is configured.
forward_posts(url) == url

\* Mutant: only a 2xx response counts as forwarded.
write_forward_result_2xxOnly(r, id, code, text) ==
  update_message(r, id, Some(IF code < 300 THEN "forwarded" ELSE "n8n_error"),
                 None, Some(code), Some(Truncate(text)), None)

\* The update_message of forward_to_n8n after the response arrived.
write_forward_result(r, id, code, text) ==
  update_message(r, id,
                 Some(IF code < ErrorStatusFloor THEN "forwarded" ELSE "n8n_error"),
                 None, Some(code), Some(Truncate(text)), None)

\* forward_to_n8n raises RuntimeError after the write when the status is >= 400.
forward_raises(code) == code >= ErrorStatusFloor

\* The coroutine runs for the first time, up to  await agent.infer(bundle).
TaskStart(t) ==
  /\ Idle
  /\ tasks[t].pc = "pending"
  /\ tasks' = [tasks EXCEPT ![t].pc = "classifying"]
  /\ UNCHANGED <<N8N_WEBHOOK_URL, rows, seq, response, raced>>

\* agent.infer returned a payload: write processed, then forward_to_n8n up
\* to its return (no URL) or to  await http_client.post(...).
ClassifyOk(t, payload) ==
  /\ Idle
  /\ tasks[t].pc = "classifying"
  /\ rows' = write_processed(rows, tasks[t].id, payload)
  /\ tasks' = [tasks EXCEPT ![t] =
                 IF forward_posts(N8N_WEBHOOK_URL)
                 THEN [@ EXCEPT !.payload = Some(payload), !.posted = TRUE,
                                !.pc = "posting"]
                 ELSE Returned(@)]
  /\ UNCHANGED <<N8N_WEBHOOK_URL, seq, response, raced>>

\* agent.infer raised AgentError.
ClassifyAgentError(t) ==
  /\ Idle
  /\ tasks[t].pc = "classifying"
  /\ rows' = except_AgentError(rows, tasks[t].id, AgentErrorText)
  /\ tasks' = [tasks EXCEPT ![t] = Returned(@)]
  /\ UNCHANGED <<N8N_WEBHOOK_URL, seq, response, raced>>

\* Any other exception escaped the await of agent.infer.
ClassifyFault(t) ==
  /\ Idle
  /\ tasks[t].pc = "classifying"
  /\ rows' = except_Exception(rows, tasks[t].id, FaultText)
  /\ tasks' = [tasks EXCEPT ![t] = Returned(@)]
  /\ UNCHANGED <<N8N_WEBHOOK_URL, seq, response, raced>>

\* The webhook answered: write forwarded / n8n_error with code and body.
PostResponse(t, code, text) ==
  /\ Idle
  /\ tasks[t].pc = "posting"
  /\ rows' = write_forward_result(rows, tasks[t].id, code, text)
  /\ tasks' = [tasks EXCEPT ![t] =
                 IF forward_raises(code)
                 THEN [@ EXCEPT !.exc = Some(N8nErrorText(code, text)),
                                !.pc = "raising"]
                 ELSE Returned(@)]
  /\ UNCHANGED <<N8N_WEBHOOK_URL, seq, response, raced>>

\* The RuntimeError of forward_to_n8n reaches  except Exception  of
\* process_message.
RaiseCaught(t) ==
  /\ tasks[t].pc = "raising"
  /\ rows' = except_Exception(rows, tasks[t].id, Val(tasks[t].exc))
  /\ tasks' = [tasks EXCEPT ![t] = Returned(@)]
  /\ UNCHANGED <<N8N_WEBHOOK_URL, seq, response, raced>>

\* http_client.post raised (timeout, connection reset); forward_to_n8n logs
\* and re-raises,  except Exception  of process_message writes failed.
PostTransportError(t) ==
  /\ Idle
  /\ tasks[t].pc = "posting"
  /\ rows' = except_Exception(rows, tasks[t].id, TransportErrorText)
  /\ tasks' = [tasks EXCEPT ![t] = Returned(@)]
  /\ UNCHANGED <<N8N_WEBHOOK_URL, seq, response, raced>>

RecordIds == 1..MaxTasks

Next ==
  \/ UNCHANGED <<gvars, evars, svars>> /\ \E b \in TeamsResolution : Ingest(b)
  \/ UNCHANGED <<gvars, evars, svars>> /\ \E i \in RecordIds : Retry(i)
  \/ UNCHANGED <<gvars, evars, svars>> /\ \E i \in RecordIds : Delete(i)
  \/ UNCHANGED <<gvars, evars, svars>> /\ \E i \in RecordIds : Get(i)
  \/ UNCHANGED <<gvars, evars, svars>> /\ \E t \in TaskIds : TaskStart(t)
  \/ UNCHANGED <<gvars, evars, svars>> /\ \E t \in TaskIds, p \in PayloadValues : ClassifyOk(t, p)
  \/ UNCHANGED <<gvars, evars, svars>> /\ \E t \in TaskIds : ClassifyAgentError(t)
  \/ UNCHANGED <<gvars, evars, svars>> /\ \E t \in TaskIds : ClassifyFault(t)
  \/ UNCHANGED <<gvars, evars, svars>> /\ \E t \in TaskIds, c \in ResponseCodes, x \in ResponseTexts : PostResponse(t, c, x)
  \/ UNCHANGED <<gvars, evars, svars>> /\ \E t \in TaskIds : PostTransportError(t)
  \/ UNCHANGED <<gvars, evars, svars>> /\ \E t \in TaskIds : RaiseCaught(t)

\* Every step of coroutine t.
TaskStep(t) ==
  \/ TaskStart(t)
  \/ \E p \in PayloadValues : ClassifyOk(t, p)
  \/ ClassifyAgentError(t)
  \/ ClassifyFault(t)
  \/ \E c \in ResponseCodes, x \in ResponseTexts : PostResponse(t, c, x)
  \/ PostTransportError(t)
  \/ RaiseCaught(t)

Spec == Init /\ [][Next]_allvars

\* The specification of the liveness claims: Next with the ingests drawn from
\* the bundles without messageId (a rejected duplicate creates no coroutine
\* and writes no row), under the fairness of the event loop: every ready
\* coroutine is run, and Classify and the webhook call each eventually
\* return or raise.
BundlesWithoutId == {b \in TeamsResolution : IsNone(b.messageId)}

NextFair ==
  \/ UNCHANGED <<gvars, evars, svars>> /\ \E b \in BundlesWithoutId : Ingest(b)
  \/ UNCHANGED <<gvars, evars, svars>> /\ \E i \in RecordIds : Retry(i)
  \/ UNCHANGED <<gvars, evars, svars>> /\ \E i \in RecordIds : Delete(i)
  \/ UNCHANGED <<gvars, evars, svars>> /\ \E t \in TaskIds : TaskStart(t)
  \/ UNCHANGED <<gvars, evars, svars>> /\ \E t \in TaskIds, p \in PayloadValues : ClassifyOk(t, p)
  \/ UNCHANGED <<gvars, evars, svars>> /\ \E t \in TaskIds : ClassifyAgentError(t)
  \/ UNCHANGED <<gvars, evars, svars>> /\ \E t \in TaskIds : ClassifyFault(t)
  \/ UNCHANGED <<gvars, evars, svars>> /\ \E t \in TaskIds, c \in ResponseCodes, x \in ResponseTexts : PostResponse(t, c, x)
  \/ UNCHANGED <<gvars, evars, svars>> /\ \E t \in TaskIds : PostTransportError(t)
  \/ UNCHANGED <<gvars, evars, svars>> /\ \E t \in TaskIds : RaiseCaught(t)

FairSpec ==
  /\ Init
  /\ [][NextFair]_allvars
  /\ \A t \in 1..MaxTasks : WF_vars(t \in TaskIds /\ TaskStep(t))

\* ================================================= GraphAPIClient.request
\* The largest max_retries a caller passes.
MaxRetries == 2
\* backoff_seconds = 2
InitialBackoffSeconds == 2
\* The Retry-After header of a 429 response, in seconds.
RetryAfterValues == {0, 1}
\* The time an HTTP attempt takes, in ticks.
LatencyValues == {0, 1}

Max(a, b) == IF a >= b THEN a ELSE b

\* pc of a request coroutine:
\*   idle              not called yet
\*   wait_retry_after  in the sleep of _rate_limit_wait for retry_after
\*   wait_pause        in the sleep of _rate_limit_wait for the pause
\*   http              in  await self.http_client.request(...)
\*   sleep_429         in  await asyncio.sleep(retry_after)
\*   sleep_backoff     in  await asyncio.sleep(backoff_seconds)
\*   done              returned or raised (result)
\* wake of a sleeping coroutine: the ticks left of its sleep.
\* result of a call that ended:
\*   ok                return response.json()
\*   ClientError       GraphAPIError("HTTP <status> error: ...")
\*   ServerError       GraphAPIError("Request failed after R retries: Server
\*                     error after R retries: <status>")
\*   TransportError    GraphAPIError("Request failed after R retries: <exc>")
\*   RetriesExhausted  GraphAPIError("Request failed after R retries")
Sleep(call, pc, until) == [call EXCEPT !.pc = pc, !.wake = until]
\* A call that ended: what it returned or raised, its cap, and the attempts
\* and responses it counted stay facts of the run.
Ended(call, result) ==
  [call EXCEPT !.pc = "done", !.result = result, !.wake = 0,
               !.retry_count = 0, !.backoff_seconds = 0]

\* The attempt: await self.http_client.request(...).
issue(call) == [call EXCEPT !.pc = "http", !.attempts = @ + 1, !.wake = 0]

\* Mutant: the loop admits one more turn than the cap.
loop_top_OneMore(call) ==
  IF call.retry_count <= call.max_retries + 1
  THEN issue(call)
  ELSE Ended(call, "RetriesExhausted")

\* while retry_count <= max_retries: ...; after the loop
\* raise GraphAPIError("Request failed after {max_retries} retries").
loop_top(call) ==
  IF call.retry_count <= call.max_retries
  THEN issue(call)
  ELSE Ended(call, "RetriesExhausted")

\* Mutant: the guard of a retry lets one more through.
may_retry_OffByOne(call) == call.retry_count <= call.max_retries

\* if retry_count < max_retries, of the 5xx branch and of the generic handler
may_retry(call) == call.retry_count < call.max_retries

\* except Exception: back off, or give up with the error.
request_except_Exception(call, error) ==
  IF may_retry(call)
  THEN Sleep(call, "sleep_backoff", Seconds(call.backoff_seconds))
  ELSE Ended(call, error)

\* Mutant: the HTTPStatusError of raise_for_status is left to the generic
\* handler.
request_except_HTTPStatusError_Generic(call) ==
  request_except_Exception(call, "ClientError")

\* except httpx.HTTPStatusError: raise GraphAPIError("HTTP ... error") from
\* inside the handler, which no other handler of the try catches.
request_except_HTTPStatusError(call) == Ended(call, "ClientError")

\* Mutant: the 5xx branch sleeps the initial backoff every time.
server_error_FixedDelay(call) ==
  IF may_retry(call)
  THEN Sleep(call, "sleep_backoff", Seconds(InitialBackoffSeconds))
  ELSE request_except_Exception(call, "ServerError")

\* The 5xx branch; its GraphAPIError is raised inside the try and is caught
\* by except Exception.
server_error(call) ==
  IF may_retry(call)
  THEN Sleep(call, "sleep_backoff", Seconds(call.backoff_seconds))
  ELSE request_except_Exception(call, "ServerError")

\* ---- the passing of time
\* An instant to come, seen ticks later.
Later(left, ticks) == Max(0, left - ticks)
\* The client and the sleeping calls, seen ticks later.
ClientLater(cl, ticks) ==
  [cl EXCEPT !.elapsed = Min(rate_limit_pause, @ + ticks),
             !.retry_after = Later(@, ticks),
             !.token_left = IF @ = LongLived THEN @ ELSE Later(@, ticks)]
CallsLater(cs, ticks) == [c \in Callers |-> [cs[c] EXCEPT !.wake = Later(@, ticks)]]

\* What the step of caller c, ticks long, does to the record of the attempts.
Spaced(c, ticks) ==
  attempted' =
    IF calls'[c].attempts > calls[c].attempts
    THEN [since |-> 0, gap |-> Min(rate_limit_pause, attempted.since + ticks)]
    ELSE [attempted EXCEPT !.since = Min(rate_limit_pause, @ + ticks)]

\* ---- authentication
\* What the token endpoint answers: None (no access_token in the result, or
\* MSAL raises), or expires_in, in seconds.
ExpiresInValues == {301, DefaultExpiresIn}
AuthResults == {None} \cup {Some(e) : e \in ExpiresInValues}

\* not self.access_token or time.time() >= self.token_expires_at
needs_token(cl) == IsNone(cl.access_token) \/ cl.token_left <= 0

\* Mutant: a failed exchange is tried once more, and that one succeeds.
authenticate_Again(cl, result) ==
  IF IsNone(result)
  THEN [cl EXCEPT !.exchanges = @ + 2,
                  !.access_token = Some(cl.exchanges + 2),
                  !.token_left = LongLived]
  ELSE [cl EXCEPT !.exchanges = @ + 1,
                  !.access_token = Some(cl.exchanges + 1),
                  !.token_left = Seconds(Val(result) - ExpiryMargin)]

\* authenticate: one exchange with MSAL (a synchronous call: the coroutine
\* has no await, nothing runs in between); the token is named by the number
\* of the exchange that gave it.
authenticate(cl, result) ==
  IF IsNone(result)
  THEN [cl EXCEPT !.exchanges = @ + 1]
  ELSE [cl EXCEPT !.exchanges = @ + 1,
                  !.access_token = Some(cl.exchanges + 1),
                  !.token_left = Seconds(Val(result) - ExpiryMargin)]

\* ensure_authenticated, the endpoint answering result if it is asked.
ensure_authenticated(cl, result) ==
  IF needs_token(cl) THEN authenticate(cl, result) ELSE cl

\* The second half of _rate_limit_wait, the client being cl and the calls cs:
\* sleep for what is left of the pause, or stamp last_request_time and
\* enter the loop.
RateLimitPause(c, cs, cl) ==
  IF cl.elapsed < rate_limit_pause
  THEN /\ calls' = [cs EXCEPT ![c] =
                      Sleep(@, "wait_pause", rate_limit_pause - cl.elapsed)]
       /\ client' = cl
  ELSE /\ calls' = [cs EXCEPT ![c] = loop_top(@)]
       /\ client' = [cl EXCEPT !.elapsed = 0]

\* request(...) is called: ensure_authenticated, whose GraphAPIError
\* ("Authentication error: ...") leaves request at once; then
\* _rate_limit_wait up to its first sleep, or up to the first attempt. The
\* headers are built after the wait from self.access_token; no other
\* coroutine runs in between when the wait does not sleep, and a wait that
\* sleeps reads the token when it wakes (WakeRetryAfter, WakePause).
Request(c, max_retries, auth_result) ==
  /\ calls[c].pc = "idle"
  /\ LET cl == ensure_authenticated(client, auth_result)
         call == [NoCall EXCEPT !.max_retries = max_retries,
                                !.backoff_seconds = InitialBackoffSeconds,
                                !.token = cl.access_token] IN
       IF needs_token(cl)
       THEN /\ calls' = [calls EXCEPT ![c] = Ended(call, "AuthError")]
            /\ client' = cl
       ELSE IF cl.retry_after > 0
       THEN /\ calls' = [calls EXCEPT ![c] =
                           Sleep(call, "wait_retry_after", cl.retry_after)]
            /\ client' = cl
       ELSE RateLimitPause(c, [calls EXCEPT ![c] = call], cl)
  /\ Spaced(c, 0)
  /\ UNCHANGED <<armed, drain>>

\* The sleep for retry_after is over: self.retry_after = 0, then the pause.
WakeRetryAfter(c) ==
  /\ calls[c].pc = "wait_retry_after"
  /\ LET ticks == calls[c].wake
         cl == [ClientLater(client, ticks) EXCEPT !.retry_after = 0] IN
       /\ RateLimitPause(c, [CallsLater(calls, ticks) EXCEPT
                               ![c].token = cl.access_token], cl)
       /\ armed' = Later(armed, ticks)
       /\ Spaced(c, ticks)
  /\ UNCHANGED drain

\* The sleep for the pause is over: last_request_time = time.time(), the
\* headers, first attempt.
WakePause(c) ==
  /\ calls[c].pc = "wait_pause"
  /\ LET ticks == calls[c].wake IN
       /\ client' = [ClientLater(client, ticks) EXCEPT !.elapsed = 0]
       /\ calls' = [CallsLater(calls, ticks) EXCEPT ![c] =
                      loop_top([@ EXCEPT !.token = client.access_token])]
       /\ armed' = Later(armed, ticks)
       /\ Spaced(c, ticks)
  /\ UNCHANGED drain

\* A response arrived: self.request_count += 1.
Counted(cl) == [cl EXCEPT !.request_count = @ + 1]

\* 2xx: raise_for_status passes, return response.json().
ResponseOk(c, latency) ==
  /\ calls[c].pc = "http"
  /\ client' = Counted(ClientLater(client, latency))
  /\ calls' = [CallsLater(calls, latency) EXCEPT ![c] = Ended(@, "ok")]
  /\ armed' = Later(armed, latency)
  /\ Spaced(c, latency)
  /\ UNCHANGED drain

\* 429: self.retry_after = time.time() + retry_after; retry_count += 1;
\* sleep(retry_after); continue.
Response429(c, latency, retry_after) ==
  /\ calls[c].pc = "http"
  /\ client' = [Counted(ClientLater(client, latency)) EXCEPT
                  !.retry_after = Seconds(retry_after)]
  /\ armed' = Max(Later(armed, latency), Seconds(retry_after))
  /\ calls' = [CallsLater(calls, latency) EXCEPT ![c] =
                 Sleep([@ EXCEPT !.retry_count = @ + 1, !.n429 = @ + 1],
                       "sleep_429", Seconds(retry_after))]
  /\ Spaced(c, latency)
  /\ UNCHANGED drain

\* 5xx
Response5xx(c, latency) ==
  /\ calls[c].pc = "http"
  /\ client' = Counted(ClientLater(client, latency))
  /\ calls' = [CallsLater(calls, latency) EXCEPT ![c] =
                 server_error([@ EXCEPT !.n5xx = @ + 1])]
  /\ armed' = Later(armed, latency)
  /\ Spaced(c, latency)
  /\ UNCHANGED drain

\* A 4xx other than 429: raise_for_status raises HTTPStatusError.
Response4xx(c, latency) ==
  /\ calls[c].pc = "http"
  /\ client' = Counted(ClientLater(client, latency))
  /\ calls' = [CallsLater(calls, latency) EXCEPT ![c] =
                 request_except_HTTPStatusError(@)]
  /\ armed' = Later(armed, latency)
  /\ Spaced(c, latency)
  /\ UNCHANGED drain

\* http_client.request raised (timeout, connection reset): no response, the
\* counter is not reached.
TransportFailure(c, latency) ==
  /\ calls[c].pc = "http"
  /\ client' = ClientLater(client, latency)
  /\ calls' = [CallsLater(calls, latency) EXCEPT ![c] =
                 request_except_Exception([@ EXCEPT !.nexc = @ + 1],
                                          "TransportError")]
  /\ armed' = Later(armed, latency)
  /\ Spaced(c, latency)
  /\ UNCHANGED drain

\* The sleep after a 429 is over: continue.
Wake429(c) ==
  /\ calls[c].pc = "sleep_429"
  /\ LET ticks == calls[c].wake IN
       /\ client' = ClientLater(client, ticks)
       /\ calls' = [CallsLater(calls, ticks) EXCEPT ![c] = loop_top(@)]
       /\ armed' = Later(armed, ticks)
       /\ Spaced(c, ticks)
  /\ UNCHANGED drain

\* The backoff sleep is over: backoff_seconds *= 2; retry_count += 1; next
\* turn of the loop.
WakeBackoff(c) ==
  /\ calls[c].pc = "sleep_backoff"
  /\ LET ticks == calls[c].wake IN
       /\ client' = ClientLater(client, ticks)
       /\ calls' = [CallsLater(calls, ticks) EXCEPT ![c] =
                      loop_top([@ EXCEPT !.backoff_seconds = @ * 2,
                                         !.retry_count = @ + 1])]
       /\ armed' = Later(armed, ticks)
       /\ Spaced(c, ticks)
  /\ UNCHANGED drain

NextClient ==
  \/ UNCHANGED <<vars, evars, svars>> /\ \E c \in Callers, r \in 0..MaxRetries, x \in AuthResults : Request(c, r, x)
  \/ UNCHANGED <<vars, evars, svars>> /\ \E c \in Callers : WakeRetryAfter(c)
  \/ UNCHANGED <<vars, evars, svars>> /\ \E c \in Callers : WakePause(c)
  \/ UNCHANGED <<vars, evars, svars>> /\ \E c \in Callers, l \in LatencyValues : ResponseOk(c, l)
  \/ UNCHANGED <<vars, evars, svars>> /\ \E c \in Callers, l \in LatencyValues, d \in RetryAfterValues : Response429(c, l, d)
  \/ UNCHANGED <<vars, evars, svars>> /\ \E c \in Callers, l \in LatencyValues : Response5xx(c, l)
  \/ UNCHANGED <<vars, evars, svars>> /\ \E c \in Callers, l \in LatencyValues : Response4xx(c, l)
  \/ UNCHANGED <<vars, evars, svars>> /\ \E c \in Callers, l \in LatencyValues : TransportFailure(c, l)
  \/ UNCHANGED <<vars, evars, svars>> /\ \E c \in Callers : Wake429(c)
  \/ UNCHANGED <<vars, evars, svars>> /\ \E c \in Callers : WakeBackoff(c)

\* The processor at rest.
ProcessorIdle ==
  /\ N8N_WEBHOOK_URL = FALSE
  /\ rows = <<>>
  /\ seq = 0
  /\ tasks = <<>>
  /\ response = [op |-> "none", id |-> None, status |-> "none"]
  /\ raced = {}

ClientInit == GraphInit /\ ExtractorIdle /\ SchedulerIdle /\ StoreUncalled /\ ProcessorIdle

\* The client under two callers.
SpecClient == ClientInit /\ [][NextClient]_allvars

\* What a call in flight does next: a sleep of its own ends, or its attempt
\* gets its outcome.
CallStep(c) ==
  \/ WakeRetryAfter(c)
  \/ WakePause(c)
  \/ \E l \in LatencyValues : ResponseOk(c, l)
  \/ \E l \in LatencyValues, d \in RetryAfterValues : Response429(c, l, d)
  \/ \E l \in LatencyValues : Response5xx(c, l)
  \/ \E l \in LatencyValues : Response4xx(c, l)
  \/ \E l \in LatencyValues : TransportFailure(c, l)
  \/ Wake429(c)
  \/ WakeBackoff(c)

\* A call with any cap, and beside it a call of the other caller that does
\* not retry.
NextCall ==
  \/ UNCHANGED <<vars, evars, svars>> /\ \E r \in 0..MaxRetries, x \in AuthResults : Request("a", r, x)
  \/ UNCHANGED <<vars, evars, svars>> /\ \E x \in AuthResults : Request("b", 0, x)
  \/ UNCHANGED <<vars, evars, svars>> /\ \E c \in Callers : WakeRetryAfter(c)
  \/ UNCHANGED <<vars, evars, svars>> /\ \E c \in Callers : WakePause(c)
  \/ UNCHANGED <<vars, evars, svars>> /\ \E c \in Callers, l \in LatencyValues : ResponseOk(c, l)
  \/ UNCHANGED <<vars, evars, svars>> /\ \E c \in Callers, l \in LatencyValues, d \in RetryAfterValues : Response429(c, l, d)
  \/ UNCHANGED <<vars, evars, svars>> /\ \E c \in Callers, l \in LatencyValues : Response5xx(c, l)
  \/ UNCHANGED <<vars, evars, svars>> /\ \E c \in Callers, l \in LatencyValues : Response4xx(c, l)
  \/ UNCHANGED <<vars, evars, svars>> /\ \E c \in Callers, l \in LatencyValues : TransportFailure(c, l)
  \/ UNCHANGED <<vars, evars, svars>> /\ \E c \in Callers : Wake429(c)
  \/ UNCHANGED <<vars, evars, svars>> /\ \E c \in Callers : WakeBackoff(c)

\* asyncio.sleep returns, and httpx answers or raises within its timeout:
\* a call in flight is not left waiting for ever.
FairSpecClient ==
  /\ ClientInit
  /\ [][NextCall]_allvars
  /\ \A c \in Callers : WF_allvars(UNCHANGED <<vars, evars, svars>> /\ CallStep(c))

\* The client whose token has lapsed, or is about to.
AuthInit ==
  /\ \E left \in {0, Seconds(1)} : client = Connected(left)
  /\ GraphIdle
  /\ ExtractorIdle
  /\ SchedulerIdle /\ StoreUncalled
  /\ ProcessorIdle

\* The largest max_retries a caller passes in the runs with a lapsing token.
MaxAuthRetries == 1

NextAuth ==
  \/ UNCHANGED <<vars, evars, svars>> /\ \E c \in Callers, r \in 0..MaxAuthRetries, x \in AuthResults : Request(c, r, x)
  \/ UNCHANGED <<vars, evars, svars>> /\ \E c \in Callers : WakeRetryAfter(c)
  \/ UNCHANGED <<vars, evars, svars>> /\ \E c \in Callers : WakePause(c)
  \/ UNCHANGED <<vars, evars, svars>> /\ \E c \in Callers, l \in LatencyValues : ResponseOk(c, l)
  \/ UNCHANGED <<vars, evars, svars>> /\ \E c \in Callers, l \in LatencyValues, d \in RetryAfterValues : Response429(c, l, d)
  \/ UNCHANGED <<vars, evars, svars>> /\ \E c \in Callers, l \in LatencyValues : Response5xx(c, l)
  \/ UNCHANGED <<vars, evars, svars>> /\ \E c \in Callers, l \in LatencyValues : Response4xx(c, l)
  \/ UNCHANGED <<vars, evars, svars>> /\ \E c \in Callers, l \in LatencyValues : TransportFailure(c, l)
  \/ UNCHANGED <<vars, evars, svars>> /\ \E c \in Callers : Wake429(c)
  \/ UNCHANGED <<vars, evars, svars>> /\ \E c \in Callers : WakeBackoff(c)

SpecAuth == AuthInit /\ [][NextAuth]_allvars

\* ============================================ GraphAPIClient.get_paginated
\* The pages a collection has at most.
MaxPages == 3
\* The "value" of a page and its "@odata.nextLink" (None: the key is absent).
ItemLists == {<<>>, <<"x">>, <<"y">>, <<"x", "y">>}
Pages == [value : ItemLists, nextLink : {None, Some("next")}]
\* The max_pages argument.
MaxPagesValues == {None, Some(0), Some(1), Some(2)}

\* Truth value of an Optional[int] and of an Optional[str].
TruthyInt(o) == ~IsNone(o) /\ Val(o) /= 0
TruthyStr(o) == ~IsNone(o) /\ Val(o) /= ""

\* Mutant: the page's items take the place of the list.
extend_Replace(all_items, items) == items

\* all_items.extend(items)
extend(all_items, items) == all_items \o items

\* Top of  while True : break on max_pages and return all_items, or call
\* self.request for the next page.
drain_loop_top(d) ==
  IF TruthyInt(d.max_pages) /\ d.page_count >= Val(d.max_pages)
  THEN [d EXCEPT !.pc = "done", !.returned = Some(d.all_items)]
  ELSE [d EXCEPT !.pc = "fetching", !.requests = @ + 1]

\* get_paginated(endpoint, params, max_pages) is called.
GetPaginated(max_pages) ==
  /\ drain.pc = "idle"
  /\ drain' = drain_loop_top([drain EXCEPT !.max_pages = max_pages])
  /\ UNCHANGED <<client, calls, armed, attempted>>

\* self.request returned the page: extend, count, read the next link, break
\* when there is none, else next turn of the loop.
PageFetched(page) ==
  /\ drain.pc = "fetching"
  /\ ~IsNone(page.nextLink) => Len(drain.pages) + 1 < MaxPages
  /\ LET d == [drain EXCEPT !.all_items = extend(@, page.value),
                            !.page_count = @ + 1,
                            !.next_link = page.nextLink,
                            !.pages = Append(@, page)] IN
       drain' = IF ~TruthyStr(d.next_link)
                THEN [d EXCEPT !.pc = "done", !.returned = Some(d.all_items)]
                ELSE drain_loop_top(d)
  /\ UNCHANGED <<client, calls, armed, attempted>>

\* self.request raised GraphAPIError: nothing in get_paginated catches it, the
\* frame and its all_items are gone and the caller has the exception alone.
PageFetchFailed ==
  /\ drain.pc = "fetching"
  /\ drain' = [drain EXCEPT !.pc = "done", !.raised = Some("GraphAPIError"),
                            !.all_items = <<>>, !.next_link = None]
  /\ UNCHANGED <<client, calls, armed, attempted>>

NextDrain ==
  \/ UNCHANGED <<vars, evars, svars>> /\ \E m \in MaxPagesValues : GetPaginated(m)
  \/ UNCHANGED <<vars, evars, svars>> /\ \E page \in Pages : PageFetched(page)
  \/ UNCHANGED <<vars, evars, svars>> /\ PageFetchFailed

SpecDrain == ClientInit /\ [][NextDrain]_allvars

\* ---- TeamsExtractor._apply_filters (extractor.py 251-314)
\* The longest list of messages taken.
MaxMessages == 2

\* Strings that are searched are sequences of characters.
\* Mutant: no case folding.
lower_Identity(str) == str

\* str.lower()
lower(str) ==
  [i \in 1..Len(str) |->
     IF str[i] = "A" THEN "a" ELSE IF str[i] = "B" THEN "b" ELSE str[i]]
\* needle in hay
contains(hay, needle) ==
  \E i \in 0..(Len(hay) - Len(needle)) :
    SubSeq(hay, i + 1, i + Len(needle)) = needle
\* re.compile(pattern, re.IGNORECASE).search(text), for patterns made of
\* letters and of ".", which stands for any character.
search(pattern, text) ==
  \E i \in 0..(Len(text) - Len(pattern)) :
    \A j \in 1..Len(pattern) :
      pattern[j] = "." \/ lower(<<pattern[j]>>) = lower(<<text[i + j]>>)

SystemMessage == "systemEventMessage"
\* Messages as TeamsMessage.from_dict leaves them, the fields the filters
\* read.
SampleMessages ==
  { [id |-> "m1", created_at |-> 1, message_type |-> "message",
     deleted_at |-> None, author_id |-> "u1", author_name |-> "Ann",
     author_email |-> Some("ann@x"), body_content |-> <<"A", "b">>],
    [id |-> "m2", created_at |-> 2, message_type |-> "message",
     deleted_at |-> Some(3), author_id |-> "u2", author_name |-> "Bob",
     author_email |-> None, body_content |-> <<"b">>],
    [id |-> "m3", created_at |-> 3, message_type |-> SystemMessage,
     deleted_at |-> None, author_id |-> "u1", author_name |-> "Ann",
     author_email |-> Some("ann@x"), body_content |-> <<>>],
    [id |-> "m4", created_at |-> 2, message_type |-> "reply",
     deleted_at |-> None, author_id |-> "u2", author_name |-> "Bob",
     author_email |-> Some("bob@x"), body_content |-> <<"c", "a">>] }

RECURSIVE ListsUpTo(_, _)
ListsUpTo(S, n) ==
  IF n = 0 THEN {<<>>}
  ELSE LET shorter == ListsUpTo(S, n - 1) IN
         shorter \cup {Append(l, x) : l \in shorter, x \in S}

\* ExtractionConfig, the fields the filters read (models.py 273-305); an
\* empty list and None are falsy.
FilterConfigs ==
  [ start_date : {None, Some(2)},
    end_date : {None, Some(2)},
    include_system_messages : BOOLEAN,
    include_deleted : BOOLEAN,
    author_ids : {{}, {"u1"}},
    author_names : {{}, {"Bob"}},
    author_emails : {{}, {"ann@x", "bob@x"}},
    keywords : {{}, {<<"B">>, <<"z">>}},
    regex_patterns : {{}, {<<"a", ".">>}} ]

\* Mutant of the author filter: the rest of the list once its first message
\* is dropped.
author_ids_filter_DropFirst(filtered, config) ==
  IF config.author_ids # {} /\ filtered # <<>> THEN Tail(filtered)
  ELSE filtered

\* if config.author_ids: filtered = [m ... if m.author_id in config.author_ids]
author_ids_filter(filtered, config) ==
  IF config.author_ids # {}
  THEN LET keep(m) == m.author_id \in config.author_ids IN
         SelectSeq(filtered, keep)
  ELSE filtered

\* Each comprehension [m for m in filtered if keep(m)] is SelectSeq.
_apply_filters(messages, config) ==
  LET after_start(m) == m.created_at >= Val(config.start_date)
      before_end(m) == m.created_at <= Val(config.end_date)
      not_system(m) == m.message_type # SystemMessage
      not_deleted(m) == IsNone(m.deleted_at)
      by_name(m) == m.author_name \in config.author_names
      by_email(m) == /\ ~IsNone(m.author_email)
                     /\ Val(m.author_email) # ""
                     /\ Val(m.author_email) \in config.author_emails
      by_keyword(m) == \E keyword \in config.keywords :
                         contains(lower(m.body_content), lower(keyword))
      by_pattern(m) == \E pattern \in config.regex_patterns :
                         search(pattern, m.body_content)
      f0 == messages
      f1 == IF ~IsNone(config.start_date) THEN SelectSeq(f0, after_start) ELSE f0
      f2 == IF ~IsNone(config.end_date) THEN SelectSeq(f1, before_end) ELSE f1
      f3 == IF ~config.include_system_messages THEN SelectSeq(f2, not_system) ELSE f2
      f4 == IF ~config.include_deleted THEN SelectSeq(f3, not_deleted) ELSE f3
      f5 == author_ids_filter(f4, config)
      f6 == IF config.author_names # {} THEN SelectSeq(f5, by_name) ELSE f5
      f7 == IF config.author_emails # {} THEN SelectSeq(f6, by_email) ELSE f6
      f8 == IF config.keywords # {} THEN SelectSeq(f7, by_keyword) ELSE f7
      f9 == IF config.regex_patterns # {} THEN SelectSeq(f8, by_pattern) ELSE f8
  IN f9

\* _apply_filters is handed a list.
FilterInit ==
  /\ GraphInit /\ SchedulerIdle /\ StoreUncalled /\ ProcessorIdle
  /\ extraction = [pc |-> "idle"] /\ channel_fetch = [pc |-> "idle"]
  /\ \E messages \in ListsUpTo(SampleMessages, MaxMessages),
        config \in FilterConfigs :
       filtering = [pc |-> "listed", messages |-> messages,
                    config |-> config, once |-> <<>>, twice |-> <<>>]

ApplyFilters ==
  /\ filtering.pc = "listed"
  /\ filtering' = [filtering EXCEPT
                     !.pc = "once",
                     !.once = _apply_filters(filtering.messages, filtering.config)]
  /\ UNCHANGED <<extraction, channel_fetch>>

\* The result is filtered again, under the same configuration.
ApplyFiltersAgain ==
  /\ filtering.pc = "once"
  /\ filtering' = [filtering EXCEPT
                     !.pc = "twice",
                     !.twice = _apply_filters(filtering.once, filtering.config)]
  /\ UNCHANGED <<extraction, channel_fetch>>

NextFilter ==
  \/ UNCHANGED <<vars, gvars, svars>> /\ ApplyFilters
  \/ UNCHANGED <<vars, gvars, svars>> /\ ApplyFiltersAgain

SpecFilter == FilterInit /\ [][NextFilter]_allvars

\* ---- TeamsExtractor._discover_channels, extract_messages (extractor.py
\* 43-175), with GraphAPIClient.get_teams (graph_client.py 312-322)
\* The longest list of teams that get_teams returns.
MaxTeams == 2
TeamIds == {"t1", "t2"}
\* A channel as Graph lists it.
chA == [id |-> "c1", displayName |-> "General"]
chB == [id |-> "c2", displayName |-> "Ops"]
\* What get_team_channels gives: None for GraphAPIError, or the channels.
ChannelListings ==
  {None, Some(<<>>), Some(<<chA>>), Some(<<chA, chB>>), Some(<<chB, chA>>)}

\* TeamsChannel.from_dict(ch, team_id)
TeamsChannel_from_dict(ch, team_id) ==
  [id |-> ch.id, team_id |-> team_id, display_name |-> ch.displayName]

\* ExtractionConfig() (models.py 273-305): no filter, no allow-list, no cap.
DefaultConfig ==
  [ start_date |-> None, end_date |-> None,
    include_system_messages |-> FALSE, include_deleted |-> FALSE,
    author_ids |-> {}, author_names |-> {}, author_emails |-> {},
    keywords |-> {}, regex_patterns |-> {},
    team_ids |-> {}, channel_ids |-> {}, channel_names |-> {},
    max_messages |-> None ]
\* The allow-lists of discovery, each empty or not.
DiscoverConfigs ==
  { [DefaultConfig EXCEPT !.team_ids = t, !.channel_ids = c, !.channel_names = n] :
      t \in {{}, {"t1"}}, c \in {{}, {"c1"}}, n \in {{}, {"Ops", "General"}, {"Ops"}} }
\* The caps of extraction; 0 is falsy.
MaxMessagesValues == {None, Some(0), Some(1), Some(3)}
ExtractConfigs ==
  {[DefaultConfig EXCEPT !.max_messages = n] : n \in MaxMessagesValues}

\* The frame of extract_messages / _discover_channels once called; joined,
\* groups, listed and fetched record what the client answered.
Called(mode, config) ==
  [ pc |-> "get_teams", mode |-> mode, config |-> config,
    joined |-> "none", groups |-> "none",
    teams |-> <<>>, team_idx |-> 1, listed |-> <<>>, channels_to_scan |-> <<>>,
    idx |-> 1, fetched |-> <<>>, all_messages |-> <<>>, errors |-> <<>>,
    returned |-> None, raised |-> None ]

\* return ExtractionResult(messages=all_messages, total_extracted=..., errors=errors)
extract_return(e) ==
  [e EXCEPT !.pc = "done",
            !.returned = Some([messages |-> e.all_messages,
                               total_extracted |-> Len(e.all_messages),
                               errors |-> e.errors])]

\* for idx, channel in enumerate(channels_to_scan, 1): up to the await.
extract_loop(e) ==
  IF e.idx > Len(e.channels_to_scan) THEN extract_return(e)
  ELSE [e EXCEPT !.pc = "fetching"]

\* return channels_to_scan: to the caller of _discover_channels, or on to
\* the loop of extract_messages.
discover_return(e) ==
  IF e.mode = "discover"
  THEN [e EXCEPT !.pc = "done", !.returned = Some(e.channels_to_scan)]
  ELSE extract_loop(e)

\* _discover_channels raised: to its caller, or to the outer except of
\* extract_messages ("Fatal error during extraction").
discover_raise(e, error) ==
  IF e.mode = "discover"
  THEN [e EXCEPT !.pc = "done", !.raised = Some(error)]
  ELSE extract_return([e EXCEPT !.errors = Append(@, [kind |-> "fatal", of |-> error])])

\* if config.team_ids and team_id not in config.team_ids: continue
team_allowed(team_id, config) ==
  config.team_ids = {} \/ team_id \in config.team_ids

RECURSIVE next_team(_, _, _)
next_team(teams, i, config) ==
  IF i > Len(teams) \/ team_allowed(teams[i], config) THEN i
  ELSE next_team(teams, i + 1, config)

\* for team in teams: up to the await of get_team_channels.
discover_loop(e) ==
  LET i == next_team(e.teams, e.team_idx, e.config) IN
    IF i > Len(e.teams) THEN discover_return([e EXCEPT !.team_idx = i])
    ELSE [e EXCEPT !.pc = "listing", !.team_idx = i]

\* Mutant: the name allow-list is not looked at.
channel_allowed_IdOnly(channel, config) ==
  config.channel_ids = {} \/ channel.id \in config.channel_ids

\* The two 'continue' of the channel loop.
channel_allowed(channel, config) ==
  /\ config.channel_ids = {} \/ channel.id \in config.channel_ids
  /\ config.channel_names = {} \/ channel.display_name \in config.channel_names

\* The channels of a listing that are appended to channels_to_scan.
RECURSIVE scan(_, _, _)
scan(channel_data, team_id, config) ==
  IF channel_data = <<>> THEN <<>>
  ELSE LET channel == TeamsChannel_from_dict(Head(channel_data), team_id)
           rest == scan(Tail(channel_data), team_id, config) IN
         IF channel_allowed(channel, config) THEN <<channel>> \o rest ELSE rest

\* A sample message as _extract_channel_messages returns it from channel:
\* TeamsMessage.from_dict(msg_data, channel.team_id, channel.id, ...).
TeamsMessage_of(m, channel) ==
  [ id |-> m.id, created_at |-> m.created_at, message_type |-> m.message_type,
    deleted_at |-> m.deleted_at, author_id |-> m.author_id,
    author_name |-> m.author_name, author_email |-> m.author_email,
    body_content |-> m.body_content,
    team_id |-> channel.team_id, channel_id |-> channel.id ]
Sample(id) == CHOOSE m \in SampleMessages : m.id = id
\* What _extract_channel_messages gives: None for GraphAPIError, or messages.
ChannelYields ==
  {None, Some(<<Sample("m1")>>), Some(<<Sample("m1"), Sample("m2")>>),
   Some(<<Sample("m1"), Sample("m4")>>)}
messages_of(yield, channel) ==
  [i \in 1..Len(yield) |-> TeamsMessage_of(yield[i], channel)]

\* Mutant: the cap stops the loop only once it is exceeded.
capped_Over(all_messages, config) ==
  TruthyInt(config.max_messages) /\ Len(all_messages) > Val(config.max_messages)

\* if config.max_messages and len(all_messages) >= config.max_messages
capped(all_messages, config) ==
  TruthyInt(config.max_messages) /\ Len(all_messages) >= Val(config.max_messages)

\* Mutant: the first channel that fails ends the loop.
except_channel_Stops(e, channel) ==
  [e EXCEPT !.errors = Append(@, [kind |-> "channel", of |-> channel.id]),
            !.idx = Len(e.channels_to_scan) + 1]

\* except Exception as exc: errors.append("Error extracting from channel
\* ..."); continue
except_channel(e, channel) ==
  [e EXCEPT !.errors = Append(@, [kind |-> "channel", of |-> channel.id]),
            !.idx = @ + 1]

\* What get_paginated gives get_teams: None for GraphAPIError, or teams.
TeamLists == {None} \cup {Some(l) : l \in ListsUpTo(TeamIds, MaxTeams)}

\* _discover_channels is called on its own.
StartDiscover(config) ==
  /\ extraction.pc = "idle"
  /\ extraction' = Called("discover", config)
  /\ UNCHANGED <<client, channel_fetch, filtering>>

\* extract_messages is called.
StartExtract(config) ==
  /\ extraction.pc = "idle"
  /\ extraction' = Called("extract", config)
  /\ UNCHANGED <<client, channel_fetch, filtering>>

\* get_teams: get_paginated("me/joinedTeams") is over. Its request went
\* through ensure_authenticated, the token endpoint answering auth_result;
\* with a token the drain gave outcome. Any GraphAPIError, the
\* authentication error included, sends get_teams to the groups query.
JoinedTeams(auth_result, outcome) ==
  /\ extraction.pc = "get_teams"
  /\ LET cl == ensure_authenticated(client, auth_result) IN
       /\ client' = cl
       /\ extraction' =
            IF needs_token(cl)
            THEN [extraction EXCEPT !.pc = "get_teams_groups", !.joined = "AuthError"]
            ELSE IF IsNone(outcome)
            THEN [extraction EXCEPT !.pc = "get_teams_groups", !.joined = "HttpError"]
            ELSE discover_loop([extraction EXCEPT !.joined = "ok",
                                                  !.teams = Val(outcome)])
  /\ UNCHANGED <<channel_fetch, filtering>>

\* get_teams: get_paginated("groups?$filter=...") is over; its
\* GraphAPIError leaves get_teams and _discover_channels.
GroupTeams(auth_result, outcome) ==
  /\ extraction.pc = "get_teams_groups"
  /\ LET cl == ensure_authenticated(client, auth_result) IN
       /\ client' = cl
       /\ extraction' =
            IF needs_token(cl)
            THEN discover_raise([extraction EXCEPT !.groups = "AuthError"], "AuthError")
            ELSE IF IsNone(outcome)
            THEN discover_raise([extraction EXCEPT !.groups = "HttpError"], "HttpError")
            ELSE discover_loop([extraction EXCEPT !.groups = "ok",
                                                  !.teams = Val(outcome)])
  /\ UNCHANGED <<channel_fetch, filtering>>

\* get_team_channels(team_id) is over: GraphAPIError is logged as a warning
\* and the team skipped; else the allowed channels are appended.
ChannelsListed(outcome) ==
  /\ extraction.pc = "listing"
  /\ LET team_id == extraction.teams[extraction.team_idx]
         e == [extraction EXCEPT
                 !.listed = Append(@, [team |-> team_id, outcome |-> outcome]),
                 !.team_idx = @ + 1] IN
       extraction' =
         IF IsNone(outcome) THEN discover_loop(e)
         ELSE discover_loop([e EXCEPT !.channels_to_scan =
                               @ \o scan(Val(outcome), team_id, e.config)])
  /\ UNCHANGED <<client, channel_fetch, filtering>>

\* _extract_channel_messages(channel, config) is over: its error is one
\* entry of errors; else filter, extend, and the cap.
ChannelFetched(outcome) ==
  /\ extraction.pc = "fetching"
  /\ LET channel == extraction.channels_to_scan[extraction.idx]
         e == [extraction EXCEPT
                 !.fetched = Append(@, [channel |-> channel, outcome |-> outcome])] IN
       extraction' =
         IF IsNone(outcome) THEN extract_loop(except_channel(e, channel))
         ELSE LET channel_messages == messages_of(Val(outcome), channel)
                  filtered_messages == _apply_filters(channel_messages, e.config)
                  all_messages == e.all_messages \o filtered_messages IN
                IF capped(all_messages, e.config)
                THEN extract_return(
                       [e EXCEPT !.all_messages =
                          SubSeq(all_messages, 1, Val(e.config.max_messages))])
                ELSE extract_loop([e EXCEPT !.all_messages = all_messages,
                                            !.idx = @ + 1])
  /\ UNCHANGED <<client, channel_fetch, filtering>>

unextracted == <<vars, calls, armed, attempted, drain, svars>>

\* A connected client whose token is good, or has run out.
DiscoverInit ==
  /\ \E left \in {0, LongLived} : client = Connected(left)
  /\ GraphIdle /\ ExtractorIdle /\ SchedulerIdle /\ StoreUncalled /\ ProcessorIdle

NextDiscover ==
  \/ UNCHANGED unextracted /\ \E config \in DiscoverConfigs : StartDiscover(config)
  \/ UNCHANGED unextracted /\ \E x \in AuthResults, o \in TeamLists : JoinedTeams(x, o)
  \/ UNCHANGED unextracted /\ \E x \in AuthResults, o \in TeamLists : GroupTeams(x, o)
  \/ UNCHANGED unextracted /\ \E o \in ChannelListings : ChannelsListed(o)

SpecDiscover == DiscoverInit /\ [][NextDiscover]_allvars

\* Extraction over one or two teams.
ExtractTeamLists == {None, Some(<<"t1">>), Some(<<"t1", "t2">>)}
ExtractListings == {None, Some(<<chA>>), Some(<<chA, chB>>)}

NextExtract ==
  \/ UNCHANGED unextracted /\ \E config \in ExtractConfigs : StartExtract(config)
  \/ UNCHANGED unextracted /\ \E x \in AuthResults, o \in ExtractTeamLists : JoinedTeams(x, o)
  \/ UNCHANGED unextracted /\ \E x \in AuthResults, o \in ExtractTeamLists : GroupTeams(x, o)
  \/ UNCHANGED unextracted /\ \E o \in ExtractListings : ChannelsListed(o)
  \/ UNCHANGED unextracted /\ \E o \in ChannelYields : ChannelFetched(o)

SpecExtract == ClientInit /\ [][NextExtract]_allvars

\* ---- TeamsExtractor._extract_channel_messages (extractor.py 177-249)
\* The replies Graph holds for a message, as dicts.
RepliesTo(id) ==
  <<[id |-> "r1", replyToId |-> Some(id)], [id |-> "r2", replyToId |-> Some(id)]>>
\* Messages as get_channel_messages returns them ($expand=replies): replies
\* not expanded, expanded, and a message that is itself a reply.
RawMessages ==
  { [id |-> "m1", replyToId |-> None, replies |-> <<>>],
    [id |-> "m2", replyToId |-> None, replies |-> RepliesTo("m2")],
    [id |-> "m3", replyToId |-> Some("m0"), replies |-> <<>>],
    [id |-> "m4", replyToId |-> None, replies |-> <<>>] }
\* What get_channel_messages gives: None for GraphAPIError, or messages.
RawLists == {None} \cup {Some(l) : l \in ListsUpTo(RawMessages, MaxMessages)}
\* What get_message_replies gives: None for an error, or replies.
ReplyLists ==
  {None, Some(<<>>)} \cup {Some(RepliesTo(m.id)) : m \in RawMessages}

\* TeamsMessage.from_dict(data, ...), the fields that tell a message from
\* its replies.
TeamsMessage_from_dict(data) == [id |-> data.id, reply_to_id |-> data.replyToId]
parse(replies_data) ==
  [i \in 1..Len(replies_data) |-> TeamsMessage_from_dict(replies_data[i])]

\* if not replies_data and msg_data.get("replyToId") is None
fetch_replies(msg_data) == msg_data.replies = <<>> /\ IsNone(msg_data.replyToId)

\* for msg_data in raw_messages: from f.i up to the next await of
\* get_message_replies, or to 'return messages'.
RECURSIVE fetch_loop(_)
fetch_loop(f) ==
  IF f.i > Len(f.raw_messages)
  THEN [f EXCEPT !.pc = "done", !.returned = Some(f.messages)]
  ELSE LET msg_data == f.raw_messages[f.i]
           appended == Append(f.messages, TeamsMessage_from_dict(msg_data)) IN
         IF ~f.include_replies
         THEN fetch_loop([f EXCEPT !.messages = appended, !.i = @ + 1])
         ELSE IF fetch_replies(msg_data)
         THEN [f EXCEPT !.pc = "replies", !.messages = appended]
         ELSE fetch_loop([f EXCEPT !.messages = appended \o parse(msg_data.replies),
                                   !.i = @ + 1])

\* Mutant: the error of get_message_replies reaches the handler of the
\* message loop, after the message is taken back.
after_replies_Skips(f, outcome) ==
  IF IsNone(outcome)
  THEN [f EXCEPT !.messages = SubSeq(@, 1, Len(@) - 1), !.i = @ + 1]
  ELSE [f EXCEPT !.messages = @ \o parse(Val(outcome)), !.i = @ + 1]

\* The end of the loop body once get_message_replies is over: its error is
\* logged (debug) and replies_data stays empty; the replies are appended.
after_replies(f, outcome) ==
  LET replies_data == IF IsNone(outcome) THEN <<>> ELSE Val(outcome) IN
    [f EXCEPT !.messages = @ \o parse(replies_data), !.i = @ + 1]

\* _extract_channel_messages(channel, config) is called.
StartFetch(include_replies) ==
  /\ channel_fetch.pc = "idle"
  /\ channel_fetch' =
       [ pc |-> "messages", include_replies |-> include_replies,
         raw_messages |-> <<>>, i |-> 1, messages |-> <<>>,
         reply_fetches |-> <<>>, returned |-> None, raised |-> None ]
  /\ UNCHANGED <<extraction, filtering>>

\* get_channel_messages is over: GraphAPIError is logged and raised again.
MessagesFetched(outcome) ==
  /\ channel_fetch.pc = "messages"
  /\ channel_fetch' =
       IF IsNone(outcome)
       THEN [channel_fetch EXCEPT !.pc = "done", !.raised = Some("GraphAPIError")]
       ELSE fetch_loop([channel_fetch EXCEPT !.raw_messages = Val(outcome)])
  /\ UNCHANGED <<extraction, filtering>>

\* get_message_replies for raw_messages[i] is over; Graph answers with
\* replies of that message.
RepliesFetched(outcome) ==
  /\ channel_fetch.pc = "replies"
  /\ IF IsNone(outcome) THEN TRUE
     ELSE \A j \in 1..Len(Val(outcome)) :
            Val(outcome)[j].replyToId
              = Some(channel_fetch.raw_messages[channel_fetch.i].id)
  /\ channel_fetch' =
       fetch_loop(after_replies(
         [channel_fetch EXCEPT !.reply_fetches =
            Append(@, [i |-> channel_fetch.i, outcome |-> outcome])],
         outcome))
  /\ UNCHANGED <<extraction, filtering>>

NextFetch ==
  \/ UNCHANGED <<vars, gvars, svars>> /\ \E r \in BOOLEAN : StartFetch(r)
  \/ UNCHANGED <<vars, gvars, svars>> /\ \E o \in RawLists : MessagesFetched(o)
  \/ UNCHANGED <<vars, gvars, svars>> /\ \E o \in ReplyLists : RepliesFetched(o)

SpecFetch == ClientInit /\ [][NextFetch]_allvars

\* ========================================================= update_message
\* The latest reading of the clock in a run of update_message on its own.
MaxClock == 1

\* The ids update_message is called with, stored or not.
UpdateIds == {1, 2}

\* Rows as the handlers leave them: a record just ingested, and one whose
\* forward was refused.
StoredRows ==
  LET b == [messageId |-> Some("m1"), channel |-> "Ops"] IN
    {NewRow(b),
     [NewRow(b) EXCEPT !.status = "failed",
                       !.jira_payload_json = Some("p1"),
                       !.n8n_response_code = Some(400),
                       !.n8n_response_body = Some(7),
                       !.error = Some(FaultText)]}

\* Keyword arguments of update_message; the code and the body of a response
\* are passed together (forward_to_n8n).
UpdateArgs ==
  [status : {None, Some("queued")},
   jira_payload : {None, Some("p2")},
   n8n : {None, Some(<<399, 2>>)},
   error : {None, Some(TransportErrorText)}]

UpdateInit ==
  /\ GraphInit /\ ExtractorIdle /\ SchedulerIdle /\ StoreUncalled
  /\ N8N_WEBHOOK_URL = FALSE
  /\ \E ids \in SUBSET UpdateIds : rows \in [ids -> StoredRows]
  /\ seq = Cardinality(UpdateIds)
  /\ tasks = <<>>
  /\ response = [op |-> "none", id |-> None, status |-> "none"]
  /\ raced = {}

\* update_message(record_id, status=..., jira_payload=..., n8n_code=...,
\* n8n_body=..., error=...)
UpdateStatus(id, a) ==
  /\ rows' = update_message(rows, id, a.status, a.jira_payload,
                            IF IsNone(a.n8n) THEN None ELSE Some(Val(a.n8n)[1]),
                            IF IsNone(a.n8n) THEN None ELSE Some(Val(a.n8n)[2]),
                            a.error)
  /\ called' = Some([id |-> id, status |-> a.status,
                     jira_payload |-> a.jira_payload,
                     n8n_code |-> IF IsNone(a.n8n) THEN None ELSE Some(Val(a.n8n)[1]),
                     n8n_body |-> IF IsNone(a.n8n) THEN None ELSE Some(Val(a.n8n)[2]),
                     error |-> a.error])
  /\ UNCHANGED <<N8N_WEBHOOK_URL, seq, tasks, response, raced, now, scheduler>>

\* A second passes.
Tick ==
  /\ now < MaxClock
  /\ now' = now + 1
  /\ UNCHANGED <<vars, scheduler, called>>

NextUpdate ==
  \/ UNCHANGED <<gvars, evars>> /\ \E id \in UpdateIds, a \in UpdateArgs : UpdateStatus(id, a)
  \/ UNCHANGED <<gvars, evars>> /\ Tick

SpecUpdate == UpdateInit /\ [][NextUpdate]_allvars

\* ===================================================== ExtractionScheduler
\* Executions of the job in a run.
MaxExecutions == 3

\* timedelta(hours=1), in seconds.
SecondsPerHour == 3600

\* "interval:30m", "interval:1h": the time from one firing of the trigger
\* to the next, in seconds.
IntervalValues == {1800, SecondsPerHour}

\* start_date and end_date of the ExtractionConfig of a job: unset, or an
\* instant given in the job file.
JobConfigs ==
  [start_date : {None, Some(0 - 2 * SecondsPerHour)},
   end_date : {None, Some(0)}]

\* ScheduledJob (the fields _execute_job and add_job read).
ScheduledJobs == [config : JobConfigs, enabled : BOOLEAN]

\* _execute_job up to  await extractor.extract_messages(config):  config is
\* job.config itself, the dates still None are set on it, and it is what
\* the extractor gets.
_execute_job(sch) ==
  LET config == [sch.job.config EXCEPT
                   !.start_date = IF IsNone(@) THEN Some(now' - SecondsPerHour)
                                  ELSE @,
                   !.end_date = IF IsNone(@) THEN Some(now') ELSE @] IN
    [sch EXCEPT !.job.config = config,
                !.executions = Append(@, [at |-> now',
                                          start_date |-> config.start_date,
                                          end_date |-> config.end_date])]

\* add_job(job, start_now): a disabled job is skipped; the job object goes
\* to the trigger and to self.jobs, and start_now creates a task of
\* _execute_job(job).
add_job(job, start_now) ==
  /\ scheduler.pc = "idle"
  /\ scheduler' =
       IF ~job.enabled THEN [pc |-> "skipped"]
       ELSE [pc |-> "added", job |-> job, given |-> job.config,
             pending |-> start_now, executions |-> <<>>]
  /\ UNCHANGED <<vars, now, called>>

\* The task created by start_now runs.
StartNow ==
  /\ scheduler.pc = "added"
  /\ scheduler.pending
  /\ now' = now
  /\ scheduler' = [_execute_job(scheduler) EXCEPT !.pending = FALSE]
  /\ UNCHANGED <<vars, called>>

\* The trigger fires, some time after the last step.
TriggerFires(elapsed) ==
  /\ scheduler.pc = "added"
  /\ Len(scheduler.executions) < MaxExecutions
  /\ now' = now + elapsed
  /\ scheduler' = _execute_job(scheduler)
  /\ UNCHANGED <<vars, called>>

\* run_job_once(job_name): _execute_job(self.jobs[job_name]), at once.
run_job_once ==
  /\ scheduler.pc = "added"
  /\ Len(scheduler.executions) < MaxExecutions
  /\ now' = now
  /\ scheduler' = _execute_job(scheduler)
  /\ UNCHANGED <<vars, called>>

SchedulerInit ==
  /\ GraphInit /\ ExtractorIdle /\ SchedulerIdle /\ StoreUncalled
  /\ ProcessorIdle

NextScheduler ==
  \/ UNCHANGED <<gvars, evars>> /\ \E job \in ScheduledJobs, start_now \in BOOLEAN : add_job(job, start_now)
  \/ UNCHANGED <<gvars, evars>> /\ StartNow
  \/ UNCHANGED <<gvars, evars>> /\ \E elapsed \in IntervalValues : TriggerFires(elapsed)
  \/ UNCHANGED <<gvars, evars>> /\ run_job_once

SpecScheduler == SchedulerInit /\ [][NextScheduler]_allvars

\* ================================================================ claims
\* Steps and statuses the claims speak of.
TerminalStatuses == {"forwarded", "agent_error", "failed", "n8n_error"}
PathSteps ==
  {<<"received", "processed">>, <<"received", "agent_error">>,
   <<"received", "failed">>, <<"processed", "forwarded">>,
   <<"processed", "n8n_error">>}
TasksFor(id) == {t \in TaskIds : tasks[t].id = id}
\* This step is a retry of record id that found the record: it created a
\* coroutine for an id that was already assigned.
RetryStepOn(id) ==
  /\ Len(tasks') = Len(tasks) + 1
  /\ seq' = seq
  /\ tasks'[Len(tasks')].id = id

\* C1: every status change of a record is a step of the path
\* received -> (processed | agent_error | failed), processed -> (forwarded |
\* n8n_error), or a restart to received written by a retry; a new record
\* starts in received.
C1_StatusPath ==
  [][\A i \in DOMAIN rows' :
       IF i \in DOMAIN rows
       THEN \/ rows'[i].status = rows[i].status
            \/ <<rows[i].status, rows'[i].status>> \in PathSteps
            \/ RetryStepOn(i) /\ rows'[i].status = "received"
       ELSE rows'[i].status = "received"]_vars

\* C2: with a webhook configured, a record whose only processing run got a
\* response with status >= 400 and has finished is in status n8n_error with
\* the response code and body stored.
C2_N8nErrorFinal ==
  \A i \in DOMAIN rows :
    ( /\ N8N_WEBHOOK_URL
      /\ Cardinality(TasksFor(i)) = 1
      /\ InFlightFor(i) = {}
      /\ ~IsNone(rows[i].n8n_response_code)
      /\ Val(rows[i].n8n_response_code) >= 400 )
    => /\ rows[i].status = "n8n_error"
       /\ ~IsNone(rows[i].n8n_response_body)

\* C3: the step in which a run receives a webhook response with status < 400
\* ends the run and leaves the record forwarded, with a stored payload, the
\* response code and the (first 2000 characters of the) response body.
C3_ForwardedOnSuccess ==
  [][\A t \in TaskIds, c \in ResponseCodes, x \in ResponseTexts :
       (PostResponse(t, c, x) /\ c < 400 /\ tasks[t].id \in DOMAIN rows)
       => /\ tasks'[t].pc = "done"
          /\ rows'[tasks[t].id].status = "forwarded"
          /\ ~IsNone(rows'[tasks[t].id].jira_payload_json)
          /\ rows'[tasks[t].id].n8n_response_code = Some(c)
          /\ rows'[tasks[t].id].n8n_response_body = Some(IF x <= 2000 THEN x ELSE 2000)]_vars

C3_Witness ==
  \E i \in DOMAIN rows :
    /\ rows[i].status = "forwarded"
    /\ rows[i].n8n_response_code = Some(399)
    /\ rows[i].n8n_response_body = Some(2000)
    /\ ~IsNone(rows[i].jira_payload_json)
    /\ InFlightFor(i) = {}

\* C4: the step in which Classify raises a classification error ends the run
\* with the record in agent_error, the error message stored, and no POST
\* issued by that run.
C4_AgentErrorStops ==
  [][\A t \in TaskIds :
       (ClassifyAgentError(t) /\ tasks[t].id \in DOMAIN rows)
       => /\ tasks'[t].pc = "done"
          /\ ~tasks'[t].posted
          /\ rows'[tasks[t].id].status = "agent_error"
          /\ rows'[tasks[t].id].error = Some(AgentErrorText)]_vars

C4_Witness ==
  \E i \in DOMAIN rows :
    /\ rows[i].status = "agent_error"
    /\ rows[i].error = Some(AgentErrorText)
    /\ N8N_WEBHOOK_URL
    /\ TasksFor(i) /= {}
    /\ \A t \in TasksFor(i) : tasks[t].pc = "done" /\ ~tasks[t].posted

\* C5: without a webhook URL, the step in which Classify returns a payload
\* ends the run without a POST and leaves the record processed with that
\* payload.
C5_NoWebhookStaysProcessed ==
  [][\A t \in TaskIds, p \in PayloadValues :
       (ClassifyOk(t, p) /\ ~N8N_WEBHOOK_URL /\ tasks[t].id \in DOMAIN rows)
       => /\ tasks'[t].pc = "done"
          /\ ~tasks'[t].posted
          /\ rows'[tasks[t].id].status = "processed"
          /\ rows'[tasks[t].id].jira_payload_json = Some(p)]_vars

C5_Witness ==
  /\ ~N8N_WEBHOOK_URL
  /\ \E i \in DOMAIN rows :
       /\ rows[i].status = "processed"
       /\ ~IsNone(rows[i].jira_payload_json)
       /\ TasksFor(i) /= {}
       /\ \A t \in TasksFor(i) : tasks[t].pc = "done" /\ ~tasks[t].posted

\* C6: every coroutine created eventually returns; a stored record with no
\* coroutine in flight is in processed, forwarded, agent_error, n8n_error or
\* failed (never received or queued); and a fault other than a classification
\* error is written as failed with its message.
C6_NoTaskDropped ==
  /\ \A t \in 1..MaxTasks : [](t \in TaskIds => <>(t \in TaskIds /\ tasks[t].pc = "done"))
  /\ [](\A i \in DOMAIN rows :
          InFlightFor(i) = {}
          => rows[i].status \in {"processed", "forwarded", "agent_error",
                                 "n8n_error", "failed"})
  /\ [][\A t \in TaskIds :
          ((ClassifyFault(t) \/ PostTransportError(t)) /\ tasks[t].id \in DOMAIN rows)
          => /\ rows'[tasks[t].id].status = "failed"
             /\ rows'[tasks[t].id].error \in {Some(FaultText), Some(TransportErrorText)}]_vars

C6_Witness ==
  \E i \in DOMAIN rows :
    /\ InFlightFor(i) = {}
    /\ Cardinality(TasksFor(i)) = 2
    /\ rows[i].status = "failed"
    /\ rows[i].error = Some(FaultText)

\* C7: the step of a retry that found its record leaves the record in status
\* received with an empty error.
C7_RetryResets ==
  [][\A i \in RecordIds :
       (RetryStepOn(i) /\ i \in DOMAIN rows')
       => rows'[i].status = "received" /\ IsNone(rows'[i].error)]_vars

\* C8 as stated: every status change from a terminal to a non-terminal
\* status is a retry step, races included.
C8_OnlyRetryReopens_AnyRun ==
  [][\A i \in DOMAIN rows \cap DOMAIN rows' :
       (rows[i].status \in TerminalStatuses /\ rows'[i].status \notin TerminalStatuses)
       => RetryStepOn(i)]_vars

\* C8 amended: for a record on which no retry ever ran while a processing
\* task for it was in flight, every status change from a terminal to a
\* non-terminal status is a retry step.
C8_OnlyRetryReopens ==
  [][\A i \in DOMAIN rows \cap DOMAIN rows' :
       ( /\ i \notin raced'
         /\ rows[i].status \in TerminalStatuses
         /\ rows'[i].status \notin TerminalStatuses )
       => RetryStepOn(i)]_vars

C8_Witness ==
  /\ response = Response("retry", None, "retrying")
  /\ \E i \in DOMAIN rows :
       /\ i \notin raced
       /\ rows[i].status = "queued"
       /\ rows[i].n8n_response_code = Some(400)
       /\ Cardinality(InFlightFor(i)) = 1

\* C9: the step that assigns a new id is a whole ingest: the record is stored
\* with status received, one coroutine is created for it and has not run (it
\* has not reached Classify), no other coroutine moved, and the response is
\* {id, "queued"}.
C9_IngestDoesNotWait ==
  [][seq' /= seq
       => /\ seq' = seq + 1
          /\ seq' \in DOMAIN rows'
          /\ rows'[seq'].status = "received"
          /\ Len(tasks') = Len(tasks) + 1
          /\ tasks'[Len(tasks')].id = seq'
          /\ tasks'[Len(tasks')].pc = "pending"
          /\ \A t \in TaskIds : tasks'[t] = tasks[t]
          /\ response' = Response("ingest", Some(seq'), "queued")]_vars

C9_Witness ==
  /\ response.op = "ingest"
  /\ response.status = "queued"
  /\ Val(response.id) \in DOMAIN rows
  /\ rows[Val(response.id)].status = "received"
  /\ \E t \in TaskIds : tasks[t].id = Val(response.id) /\ tasks[t].pc = "pending"
  /\ \E t \in TaskIds : tasks[t].id /= Val(response.id) /\ tasks[t].pc = "classifying"

\* C10: an ingest is rejected exactly when its messageId is non-null and a
\* stored record carries it; a rejected ingest changes no record, assigns no
\* id and creates no coroutine; any other ingest stores a new record with
\* that messageId and creates one coroutine.
C10_DuplicateRejected ==
  [][\A b \in TeamsResolution :
       Ingest(b)
       => IF /\ ~IsNone(b.messageId)
             /\ \E i \in DOMAIN rows : rows[i].message_id = b.messageId
          THEN /\ response' = Response("ingest", None, "IntegrityError")
               /\ rows' = rows /\ tasks' = tasks /\ seq' = seq
          ELSE /\ response' = Response("ingest", Some(seq'), "queued")
               /\ seq' = seq + 1
               /\ DOMAIN rows' = DOMAIN rows \cup {seq'}
               /\ rows'[seq'].message_id = b.messageId
               /\ \A i \in DOMAIN rows : rows'[i] = rows[i]
               /\ Len(tasks') = Len(tasks) + 1]_vars

\* A duplicate was rejected while a record without messageId and the record
\* holding the messageId are stored, each with its one coroutine.
C10_Witness ==
  /\ response = Response("ingest", None, "IntegrityError")
  /\ \E i \in DOMAIN rows : ~IsNone(rows[i].message_id)
  /\ \E i \in DOMAIN rows : IsNone(rows[i].message_id)
  /\ Len(tasks) = Cardinality(DOMAIN rows)

\* C11: the id an ingest assigns is larger than every id assigned before it
\* (each assigned id is the id of the coroutine created with it) and larger
\* than every id stored, so an id is never taken again, not even after
\* the record with the highest id was deleted.
C11_IdsIncrease ==
  [][\A b \in TeamsResolution :
       (Ingest(b) /\ response'.status = "queued") =>
         LET record_id == Val(response'.id) IN
           /\ \A t \in TaskIds : tasks[t].id < record_id
           /\ \A i \in DOMAIN rows : i < record_id
           /\ record_id \in DOMAIN rows']_vars

\* An ingest answered after the record with the highest id was deleted.
C11_Witness ==
  /\ response = Response("ingest", Some(2), "queued")
  /\ DOMAIN rows = {2}

\* C12: a status update on an id that is not stored fails with not-found and
\* does not pass for a success: the coroutine whose  processed  write found
\* no row does not go on to post the payload to the webhook.
C12_UpdateAbsentFails ==
  [][\A t \in TaskIds, p \in PayloadValues :
       (ClassifyOk(t, p) /\ tasks[t].id \notin DOMAIN rows) =>
         tasks'[t].pc /= "posting"]_vars

\* C13: Get and Delete on an id that is not stored answer not-found and
\* leave the store as it was; Delete on a stored id removes that record and
\* no other, and leaves every other record as it was.
C13_GetDeleteAbsent ==
  [][\A i \in RecordIds :
       /\ (Get(i) /\ i \notin DOMAIN rows) =>
             (response' = Response("get", None, "404") /\ rows' = rows)
       /\ (Delete(i) /\ i \notin DOMAIN rows) =>
             (response' = Response("delete", None, "404") /\ rows' = rows)
       /\ (Delete(i) /\ i \in DOMAIN rows) =>
             /\ response' = Response("delete", None, "deleted")
             /\ DOMAIN rows' = DOMAIN rows \ {i}
             /\ \A j \in DOMAIN rows' : rows'[j] = rows[j]]_vars

\* Get answered not-found after the only record was deleted.
C13_Witness ==
  /\ response = Response("get", None, "404")
  /\ rows = <<>>
  /\ \E t \in TaskIds : tasks[t].id = 1

\* C14: with a processor API key configured, an ingest request that does not
\* carry that key is answered unauthorized: no record is created and no
\* coroutine is launched.
C14_ApiKeyEnforced ==
  [][\A key \in ApiKeyValues, h \in ApiKeyHeaders, b \in TeamsResolution :
       (IngestRequest(h, b) /\ h /= Some(key)) =>
         /\ response' = Response("ingest", None, "401")
         /\ UNCHANGED <<rows, tasks>>]_vars

\* ---- GraphAPIClient.request
\* The call of caller c has so far received 5xx responses only.
Only5xx(c) == calls[c].n429 = 0 /\ calls[c].nexc = 0
Running(c) == calls[c].pc \notin {"idle", "done"}

\* C17: a call with cap R that receives only 5xx until a possible success
\* goes on after each of the first R 5xx responses, returns the success
\* that arrives within its first R + 1 attempts, fails with the server error
\* on the (R + 1)-th 5xx, never makes more than R + 1 attempts, and makes
\* none once it has ended.
C17_RetryCap ==
  [][\A c \in Callers, l \in LatencyValues :
       /\ (Response5xx(c, l) /\ Only5xx(c)) =>
            IF calls[c].n5xx < calls[c].max_retries
            THEN calls'[c].pc = "sleep_backoff"
            ELSE /\ calls'[c].pc = "done"
                 /\ calls'[c].result = "ServerError"
                 /\ calls'[c].attempts = calls[c].max_retries + 1
       /\ (ResponseOk(c, l) /\ Only5xx(c)) =>
            /\ calls'[c].pc = "done"
            /\ calls'[c].result = "ok"
            /\ calls'[c].attempts <= calls[c].max_retries + 1
       /\ (Running(c) /\ Only5xx(c)) =>
            calls[c].attempts <= calls[c].max_retries + 1
       /\ calls[c].pc = "done" => calls'[c] = calls[c]]_gvars

\* A call with the largest cap that failed on its last allowed attempt after
\* 5xx responses only.
C17_Witness ==
  \E c \in Callers :
    /\ calls[c].result = "ServerError"
    /\ calls[c].max_retries = MaxRetries
    /\ calls[c].n5xx = MaxRetries + 1
    /\ calls[c].attempts = MaxRetries + 1

\* C18: a 4xx response other than 429 ends the call with the client error,
\* whatever is left of its retry budget, and an ended call makes no
\* further attempt.
C18_ClientErrorFinal ==
  [][\A c \in Callers, l \in LatencyValues :
       /\ Response4xx(c, l) =>
            /\ calls'[c].pc = "done"
            /\ calls'[c].result = "ClientError"
            /\ calls'[c].attempts = calls[c].attempts
       /\ calls[c].result = "ClientError" => calls'[c] = calls[c]]_gvars

\* A call ended by a 4xx on its second attempt, with retries to spare.
C18_Witness ==
  \E c \in Callers :
    /\ calls[c].result = "ClientError"
    /\ calls[c].n5xx = 1
    /\ calls[c].attempts = 2
    /\ calls[c].max_retries = MaxRetries

\* C19: a 429 does not consume the retry budget: a call fails on a 5xx or a
\* transport failure only when it has had max_retries + 1 of those, however
\* many 429 responses it received, and a call that met nothing but 429
\* responses and honoured them does not fail.
C19_RateLimitKeepsBudget ==
  \A c \in Callers :
    calls[c].pc = "done" =>
      /\ calls[c].result \in {"ServerError", "TransportError"} =>
           calls[c].n5xx + calls[c].nexc = calls[c].max_retries + 1
      /\ calls[c].result /= "RetriesExhausted"

\* C20: an attempt is issued through the client only when the instant t + d
\* of every 429 received so far is reached, whichever call issues it.
C20_NoAttemptBeforeRetryAfter ==
  [][\A c \in Callers :
       calls'[c].attempts > calls[c].attempts => armed' = 0]_gvars

\* ---- GraphAPIClient.get_paginated
RECURSIVE Concatenation(_)
\* The items of the pages, in the order of the responses.
Concatenation(pages) ==
  IF pages = <<>> THEN <<>>
  ELSE Concatenation(SubSeq(pages, 1, Len(pages) - 1)) \o pages[Len(pages)].value

\* C15: a drain without max_pages whose fetches all succeeded returns the
\* concatenation of the pages' items in the order of the responses, made as
\* many requests as there are pages up to and including the first one without
\* a next link, and made none after it.
C15_DrainConcatenates ==
  (drain.pc = "done" /\ IsNone(drain.raised) /\ IsNone(drain.max_pages)) =>
    /\ drain.returned = Some(Concatenation(drain.pages))
    /\ drain.requests = Len(drain.pages)
    /\ Len(drain.pages) >= 1
    /\ IsNone(drain.pages[Len(drain.pages)].nextLink)
    /\ \A i \in 1..(Len(drain.pages) - 1) : ~IsNone(drain.pages[i].nextLink)

\* Two pages drained, an item of the first page again in the second.
C15_Witness ==
  /\ drain.pc = "done"
  /\ IsNone(drain.max_pages)
  /\ Len(drain.pages) = 2
  /\ drain.returned = Some(<<"x", "y", "x">>)

\* C16: when a fetch fails after at least one page was fetched, the caller
\* receives the error and, with it, the items of the pages fetched before.
C16_PartialWithError ==
  (drain.pc = "done" /\ ~IsNone(drain.raised) /\ Len(drain.pages) >= 1) =>
    drain.returned = Some(Concatenation(drain.pages))

\* ---- attempts through one client

\* C21: any two consecutive HTTP attempts through one client are at least
\* rate_limit_pause apart, whether the later one is the first attempt of a
\* call, a retry inside a call or the attempt of a concurrent caller.
C21_AttemptsSpaced == attempted.gap >= rate_limit_pause

\* The attempts of the calls in cs that are not in flight any more.
RECURSIVE AttemptsOver(_)
AttemptsOver(cs) ==
  IF cs = {} THEN 0
  ELSE LET c == CHOOSE x \in cs : TRUE IN
         calls[c].attempts - (IF calls[c].pc = "http" THEN 1 ELSE 0)
           + AttemptsOver(cs \ {c})

\* C22: the request counter equals the number of HTTP attempts issued,
\* the attempts that ended in a transport failure included (an attempt in
\* flight is left out of the count here, the counter moving at its end).
C22_CounterCountsAttempts == client.request_count = AttemptsOver(Callers)

\* C24: two calls made at the same instant while the credential is expired
\* share one token exchange: when the first has left with the
\* authentication error and the second is in its first attempt (no time has
\* passed), one exchange was made, not two.
C24_SingleFlight ==
  \A c, d \in Callers :
    (/\ c # d
     /\ calls[c].result = "AuthError"
     /\ calls[d].pc = "http" /\ calls[d].attempts = 1) =>
      client.exchanges <= 1

\* ---- the extractor

\* sub is list with some of its elements taken out, the others in place.
RECURSIVE IsSubsequence(_, _)
IsSubsequence(sub, list) ==
  IF sub = <<>> THEN TRUE
  ELSE IF list = <<>> THEN FALSE
  ELSE IF Head(sub) = Head(list)
       THEN IsSubsequence(Tail(sub), Tail(list))
       ELSE IsSubsequence(sub, Tail(list))

\* C30: _apply_filters keeps the order and is idempotent: its result is a
\* subsequence of the list it was given (nothing doubled, nothing altered),
\* and filtering the result again under the same configuration gives the
\* same list.
C30_FiltersIdempotent ==
  /\ filtering.pc \in {"once", "twice"} =>
       IsSubsequence(filtering.once, filtering.messages)
  /\ filtering.pc = "twice" => filtering.twice = filtering.once

\* A list of two was filtered twice and one message of it was kept.
C30_Witness ==
  /\ filtering.pc = "twice"
  /\ Len(filtering.messages) = 2
  /\ Len(filtering.once) = 1
  /\ filtering.config.author_ids # {}

\* C23: an authentication failure is not retried silently: when the
\* exchange fails while the teams are enumerated, get_teams fails with the
\* authentication error and no second exchange is made.
C23_AuthFailureFinal ==
  (extraction.pc # "idle" /\ extraction.joined = "AuthError") =>
    /\ extraction.pc = "done"
    /\ extraction.raised = Some("AuthError")
    /\ client.exchanges = 1

\* The teams that pass the team-id allow-list, in the order of get_teams.
AllowedTeams(teams, config) ==
  LET passes(t) == config.team_ids = {} \/ t \in config.team_ids IN
    SelectSeq(teams, passes)

\* The channels of the listings that succeeded, those that pass the two
\* channel allow-lists, in the order of the listings.
RECURSIVE ListedChannels(_, _)
ListedChannels(listed, config) ==
  IF listed = <<>> THEN <<>>
  ELSE LET last == listed[Len(listed)]
           channels == [i \in 1..Len(Val(last.outcome)) |->
                          [id |-> Val(last.outcome)[i].id,
                           team_id |-> last.team,
                           display_name |-> Val(last.outcome)[i].displayName]]
           passes(ch) == /\ config.channel_ids = {} \/ ch.id \in config.channel_ids
                         /\ config.channel_names = {}
                              \/ ch.display_name \in config.channel_names IN
         ListedChannels(SubSeq(listed, 1, Len(listed) - 1), config)
           \o (IF IsNone(last.outcome) THEN <<>> ELSE SelectSeq(channels, passes))

\* C25: once the teams are enumerated, _discover_channels returns whatever
\* listings fail: the channels were listed for exactly the teams that pass
\* the team-id allow-list, and the result is, in enumeration and then
\* listing order, the channels of the listings that succeeded that pass the
\* channel id and name allow-lists (an empty allow-list passes all).
C25_DiscoveryDegrades ==
  (/\ extraction.pc = "done"
   /\ extraction.mode = "discover"
   /\ "ok" \in {extraction.joined, extraction.groups}) =>
    /\ IsNone(extraction.raised)
    /\ [i \in 1..Len(extraction.listed) |-> extraction.listed[i].team]
         = AllowedTeams(extraction.teams, extraction.config)
    /\ extraction.returned =
         Some(ListedChannels(extraction.listed, extraction.config))

\* The listing of the first team failed, the second team listed two
\* channels, of which the name allow-list passes one.
C25_Witness ==
  /\ extraction.pc = "done"
  /\ extraction.mode = "discover"
  /\ extraction.config.channel_names = {"Ops"}
  /\ extraction.listed = <<[team |-> "t1", outcome |-> None],
                           [team |-> "t2", outcome |-> Some(<<chA, chB>>)]>>
  /\ extraction.returned =
       Some(<<[id |-> "c2", team_id |-> "t2", display_name |-> "Ops"]>>)

\* extract_messages has returned, the teams having been enumerated.
Extracted ==
  /\ extraction.pc = "done"
  /\ extraction.mode = "extract"
  /\ "ok" \in {extraction.joined, extraction.groups}

\* C26: discovery finds two teams and the channel listing of one of them
\* fails: extract_messages returns the messages of the surviving team's
\* channel, and its error list has exactly one entry.
C26_ListingFailureReported ==
  (/\ Extracted
   /\ Len(extraction.teams) = 2
   /\ Len(extraction.listed) = 2
   /\ Cardinality({i \in 1..2 : IsNone(extraction.listed[i].outcome)}) = 1
   /\ Len(extraction.fetched) = 1
   /\ ~IsNone(extraction.fetched[1].outcome)) =>
    /\ Val(extraction.returned).messages # <<>>
    /\ Len(Val(extraction.returned).errors) = 1

\* The filtered messages of the channels fetched, in the order of the
\* fetches.
RECURSIVE Accumulated(_, _)
Accumulated(fetched, config) ==
  IF fetched = <<>> THEN <<>>
  ELSE LET last == fetched[Len(fetched)] IN
         Accumulated(SubSeq(fetched, 1, Len(fetched) - 1), config)
           \o (IF IsNone(last.outcome) THEN <<>>
               ELSE _apply_filters(messages_of(Val(last.outcome), last.channel),
                                   config))

\* The cap, as a number, holds in this state of an extraction: the result
\* has no more messages than the cap, and once the filtered messages of the
\* channels fetched reach it with a channel, extraction is over, no channel was fetched
\* after the one that reached it, and the result is the first messages up
\* to the cap.
CapHolds(cap) ==
  LET acc == Accumulated(extraction.fetched, extraction.config) IN
    /\ Len(extraction.all_messages) <= cap
    /\ (/\ extraction.fetched # <<>>
        /\ ~IsNone(extraction.fetched[Len(extraction.fetched)].outcome)
        /\ Len(acc) >= cap) =>
         /\ extraction.pc = "done"
         /\ Val(extraction.returned).messages = SubSeq(acc, 1, cap)
         /\ Len(Accumulated(SubSeq(extraction.fetched, 1,
                                   Len(extraction.fetched) - 1),
                            extraction.config)) < cap

RECURSIVE FetchErrors(_)
FetchErrors(fetched) ==
  IF fetched = <<>> THEN <<>>
  ELSE LET last == fetched[Len(fetched)] IN
         FetchErrors(SubSeq(fetched, 1, Len(fetched) - 1))
           \o (IF IsNone(last.outcome)
               THEN <<[kind |-> "channel", of |-> last.channel.id]>>
               ELSE <<>>)

\* C28: channel failures are isolated: the error list has exactly one entry
\* for each channel whose fetch failed; the channels are fetched in
\* discovery order, all of them unless the cap stopped the loop; the result
\* holds the filtered messages of the channels fetched, in that order, up to
\* the cap.
C28_ChannelFailuresIsolated ==
  Extracted =>
    LET acc == Accumulated(extraction.fetched, extraction.config)
        config == extraction.config
        result == Val(extraction.returned) IN
      /\ result.errors = FetchErrors(extraction.fetched)
      /\ Len(extraction.fetched) <= Len(extraction.channels_to_scan)
      /\ \A i \in 1..Len(extraction.fetched) :
           extraction.fetched[i].channel = extraction.channels_to_scan[i]
      /\ IF TruthyInt(config.max_messages) /\ Len(acc) >= Val(config.max_messages)
         THEN result.messages = SubSeq(acc, 1, Val(config.max_messages))
         ELSE /\ result.messages = acc
              /\ Len(extraction.fetched) = Len(extraction.channels_to_scan)

\* Three channels; the fetch of the second failed, the first and the third
\* gave messages.
C28_Witness ==
  /\ Extracted
  /\ Len(extraction.fetched) = 3
  /\ ~IsNone(extraction.fetched[1].outcome)
  /\ IsNone(extraction.fetched[2].outcome)
  /\ ~IsNone(extraction.fetched[3].outcome)
  /\ Len(Val(extraction.returned).errors) = 1
  /\ Len(Val(extraction.returned).messages) >= 2

\* The messages of raw, each followed by its replies: those that came
\* expanded, else those that a fetch recorded in fetches brought.
RECURSIVE WithReplies(_, _, _)
WithReplies(raw, n, fetches) ==
  IF n = 0 THEN <<>>
  ELSE LET data == raw[n]
           brought == {k \in 1..Len(fetches) :
                         fetches[k].i = n /\ ~IsNone(fetches[k].outcome)}
           replies == IF data.replies # <<>> THEN data.replies
                      ELSE IF brought = {} THEN <<>>
                      ELSE Val(fetches[CHOOSE k \in brought : TRUE].outcome) IN
         WithReplies(raw, n - 1, fetches)
           \o <<[id |-> data.id, reply_to_id |-> data.replyToId]>>
           \o [j \in 1..Len(replies) |->
                 [id |-> replies[j].id, reply_to_id |-> replies[j].replyToId]]

\* C29: when the replies of a message cannot be fetched the channel does
\* not fail and the message is not dropped: _extract_channel_messages
\* returns every top-level message in order, each followed by its own
\* replies in order, the message whose fetch failed without replies; replies
\* are fetched only for messages that came without them.
C29_ReplyFailureIsolated ==
  (/\ channel_fetch.pc = "done"
   /\ channel_fetch.include_replies
   /\ IsNone(channel_fetch.raised)) =>
    /\ channel_fetch.returned =
         Some(WithReplies(channel_fetch.raw_messages,
                          Len(channel_fetch.raw_messages),
                          channel_fetch.reply_fetches))
    /\ \A k \in 1..Len(channel_fetch.reply_fetches) :
         LET data == channel_fetch.raw_messages[channel_fetch.reply_fetches[k].i] IN
           data.replies = <<>> /\ IsNone(data.replyToId)

\* Two messages; the replies of the first could not be fetched, those of the
\* second were: four messages returned.
C29_Witness ==
  /\ channel_fetch.pc = "done"
  /\ Len(channel_fetch.raw_messages) = 2
  /\ Len(channel_fetch.reply_fetches) = 2
  /\ IsNone(channel_fetch.reply_fetches[1].outcome)
  /\ ~IsNone(channel_fetch.reply_fetches[2].outcome)
  /\ channel_fetch.returned =
       Some(<<[id |-> "m1", reply_to_id |-> None],
              [id |-> "m4", reply_to_id |-> None],
              [id |-> "r1", reply_to_id |-> Some("m4")],
              [id |-> "r2", reply_to_id |-> Some("m4")]>>)

\* A character with its case folded.
Folded(ch) == IF ch = "A" THEN "a" ELSE IF ch = "B" THEN "b" ELSE ch
\* word occurs in text at offset i, case aside; "." in a pattern stands for
\* any character.
OccursAt(word, text, i, wildcard) ==
  /\ i + Len(word) <= Len(text)
  /\ \A j \in 1..Len(word) :
       \/ wildcard /\ word[j] = "."
       \/ Folded(word[j]) = Folded(text[i + j])
\* Message m satisfies every active predicate of config.
Satisfies(m, config) ==
  /\ IsNone(config.start_date) \/ m.created_at >= Val(config.start_date)
  /\ IsNone(config.end_date) \/ m.created_at <= Val(config.end_date)
  /\ config.include_system_messages \/ m.message_type # "systemEventMessage"
  /\ config.include_deleted \/ IsNone(m.deleted_at)
  /\ config.author_ids = {} \/ m.author_id \in config.author_ids
  /\ config.author_names = {} \/ m.author_name \in config.author_names
  /\ config.author_emails = {}
       \/ (~IsNone(m.author_email) /\ Val(m.author_email) \in config.author_emails)
  /\ config.keywords = {}
       \/ \E k \in config.keywords :
            \E i \in 0..Len(m.body_content) : OccursAt(k, m.body_content, i, FALSE)
  /\ config.regex_patterns = {}
       \/ \E r \in config.regex_patterns :
            \E i \in 0..Len(m.body_content) : OccursAt(r, m.body_content, i, TRUE)

\* C31: _apply_filters returns exactly the messages that satisfy every
\* active predicate, in their order: the predicates are ANDed, keywords are
\* ORed among themselves and so are patterns, the time window is inclusive
\* at both ends, and an empty or unset predicate constrains nothing.
C31_FiltersExact ==
  filtering.pc \in {"once", "twice"} =>
    /\ \A i \in 1..Len(filtering.once) :
         Satisfies(filtering.once[i], filtering.config)
    /\ Len(filtering.once)
         = Cardinality({i \in 1..Len(filtering.messages) :
                          Satisfies(filtering.messages[i], filtering.config)})
    /\ IsSubsequence(filtering.once, filtering.messages)

\* Keywords and patterns are set and the window ends at 2: of two messages
\* the one whose body matches in another case is kept, the other, created
\* at 3, is not.
C31_Witness ==
  /\ filtering.pc = "once"
  /\ filtering.config.keywords # {}
  /\ filtering.config.regex_patterns # {}
  /\ filtering.config.end_date = Some(2)
  /\ filtering.config.include_system_messages
  /\ Len(filtering.messages) = 2
  /\ filtering.messages[1].id = "m3"
  /\ Len(filtering.once) = 1
  /\ filtering.once[1].id = "m1"

\* ---- the processing pipeline, again

\* C32: each transition is persisted before the next step starts: when a
\* coroutine suspends in the forward POST, the record (if it is still
\* stored) holds processed and the payload; and forwarded or n8n_error is
\* written to a record only by a step in which a coroutine for that record
\* receives the webhook's response.
C32_PersistedBeforeNext ==
  [][/\ \A t \in TaskIds :
          (tasks[t].pc # "posting" /\ tasks'[t].pc = "posting"
             /\ tasks[t].id \in DOMAIN rows) =>
            /\ rows'[tasks[t].id].status = "processed"
            /\ rows'[tasks[t].id].jira_payload_json = tasks'[t].payload
            /\ ~IsNone(tasks'[t].payload)
     /\ \A id \in DOMAIN rows :
          (/\ id \in DOMAIN rows'
           /\ rows'[id] # rows[id]
           /\ rows'[id].status \in {"forwarded", "n8n_error"}) =>
            \E t \in TaskIds :
              /\ tasks[t].id = id
              /\ tasks[t].pc = "posting"
              /\ tasks'[t].pc \in {"done", "raising"}
              /\ ~IsNone(rows'[id].n8n_response_code)]_vars

\* A coroutine is suspended in the POST, its record processed with the
\* payload.
C32_Witness ==
  \E t \in TaskIds :
    /\ tasks[t].pc = "posting"
    /\ tasks[t].id \in DOMAIN rows
    /\ rows[tasks[t].id].status = "processed"
    /\ rows[tasks[t].id].jira_payload_json = tasks[t].payload

\* The ways the pc of a process_message coroutine moves: Classify is
\* entered once, the POST at most once, and nothing leads back.
ForwardMoves ==
  { <<"pending", "classifying">>, <<"classifying", "posting">>,
    <<"classifying", "done">>, <<"posting", "done">>,
    <<"posting", "raising">>, <<"raising", "done">> }

\* C33: no automatic retry: a coroutine is created only by an ingest (for
\* the id it just assigned, one coroutine) or by a retry (for a stored id,
\* one coroutine); a coroutine calls Classify once and posts to the webhook
\* at most once, so a record has at most 1 + its number of retries POSTs.
C33_NoAutomaticRetry ==
  [][/\ Len(tasks') \in {Len(tasks), Len(tasks) + 1}
     /\ Len(tasks') = Len(tasks) + 1 =>
          LET new == tasks'[Len(tasks')] IN
            /\ new.pc = "pending" /\ ~new.posted
            /\ \/ /\ response' = Response("ingest", Some(new.id), "queued")
                  /\ new.id = seq + 1 /\ seq' = seq + 1
                  /\ \A t \in TaskIds : tasks[t].id # new.id
               \/ /\ response' = Response("retry", None, "retrying")
                  /\ new.id \in DOMAIN rows
     /\ \A t \in TaskIds :
          /\ tasks'[t].id = tasks[t].id
          /\ tasks'[t].pc = tasks[t].pc
               \/ <<tasks[t].pc, tasks'[t].pc>> \in ForwardMoves
          /\ tasks'[t].posted # tasks[t].posted =>
               /\ tasks[t].pc = "classifying" /\ tasks'[t].pc = "posting"
               /\ tasks'[t].posted
          /\ (tasks[t].pc # "posting" /\ tasks'[t].pc = "posting") =>
               ~tasks[t].posted]_vars

\* A record was retried once; each of its two coroutines posted once and
\* returned.
C33_Witness ==
  /\ Len(tasks) = 2
  /\ tasks[1].id = tasks[2].id
  /\ tasks[1].posted /\ tasks[2].posted
  /\ tasks[1].pc = "done" /\ tasks[2].pc = "done"

\* C39: in every reachable state a record that is processed, forwarded or
\* n8n_error has a stored payload, a forwarded record a stored downstream
\* code below 400, an n8n_error record one of 400 or more; and no step
\* clears the payload of a record that stays stored.
C39_StatusImpliesFields ==
  /\ [](\A id \in DOMAIN rows :
          /\ rows[id].status \in {"processed", "forwarded", "n8n_error"} =>
               ~IsNone(rows[id].jira_payload_json)
          /\ rows[id].status = "forwarded" =>
               /\ ~IsNone(rows[id].n8n_response_code)
               /\ Val(rows[id].n8n_response_code) < 400
          /\ rows[id].status = "n8n_error" =>
               /\ ~IsNone(rows[id].n8n_response_code)
               /\ Val(rows[id].n8n_response_code) >= 400)
  /\ [][\A id \in DOMAIN rows \cap DOMAIN rows' :
          ~IsNone(rows[id].jira_payload_json) =>
            ~IsNone(rows'[id].jira_payload_json)]_vars

\* A retry raced a task in flight on a record that is now forwarded, with
\* its payload and a code below 400.
C39_Witness ==
  \E id \in DOMAIN rows :
    /\ id \in raced
    /\ rows[id].status = "forwarded"
    /\ rows[id].n8n_response_code = Some(399)
    /\ ~IsNone(rows[id].jira_payload_json)

\* C40: a deleted record is never resurrected: an id the table assigned and
\* no longer holds stays absent in every step (so GET on it keeps raising
\* not-found), a step of a task whose record is gone leaves the table as it
\* is, and a step of a task changes no record but its own.
C40_DeletedStaysDeleted ==
  [][/\ \A id \in (1..seq) \ DOMAIN rows :
          id \notin DOMAIN rows' /\ fetch_message_raises(rows', id)
     /\ \A t \in TaskIds :
          tasks'[t] # tasks[t] =>
            /\ tasks[t].id \notin DOMAIN rows => rows' = rows
            /\ DOMAIN rows' = DOMAIN rows
            /\ \A j \in DOMAIN rows \ {tasks[t].id} : rows'[j] = rows[j]]_vars

\* A task has just made its n8n_error write on a record deleted while the
\* task was in flight (nothing runs between that write and this state), and
\* another record is stored.
C40_Witness ==
  \E t \in TaskIds :
    /\ tasks[t].pc = "raising"
    /\ tasks[t].id \notin DOMAIN rows
    /\ DOMAIN rows # {}

\* ---- the retrying transport, again
RECURSIVE Pow2(_)
Pow2(n) == IF n = 0 THEN 1 ELSE 2 * Pow2(n - 1)

\* C35: within one call the sleep that follows its k-th 5xx response or
\* transport failure (the two counted together) lasts 2 * 2^(k-1) seconds; a
\* transport failure on the last attempt the cap allows ends the call with
\* the error; a call that ended makes no further attempt.
C35_BackoffDoubles ==
  [][\A c \in Callers :
       /\ (calls[c].pc = "http" /\ calls'[c].pc = "sleep_backoff") =>
            calls'[c].wake =
              Seconds(2 * Pow2(calls'[c].n5xx + calls'[c].nexc - 1))
       /\ (/\ calls[c].pc = "http"
           /\ calls'[c].nexc = calls[c].nexc + 1
           /\ calls[c].retry_count >= calls[c].max_retries) =>
            /\ calls'[c].pc = "done"
            /\ calls'[c].result = "TransportError"
       /\ calls[c].pc = "done" =>
            /\ calls'[c].pc = "done"
            /\ calls'[c].attempts = calls[c].attempts]_gvars

\* A call sleeps four seconds before its second retry, a 5xx response and
\* a transport failure behind it.
C35_Witness ==
  \E c \in Callers :
    /\ calls[c].pc = "sleep_backoff"
    /\ calls[c].n5xx = 1 /\ calls[c].nexc = 1 /\ calls[c].n429 = 0
    /\ calls[c].wake = Seconds(4)

\* C36: every call ends, whatever the server answers: its attempts never
\* exceed max_retries + 1, and a call that was made ends in a response or in
\* an error.
C36_CallTerminates ==
  /\ [](\A c \in Callers : calls[c].attempts <= calls[c].max_retries + 1)
  /\ \A c \in Callers :
       (calls[c].pc # "idle") ~>
         (calls[c].pc = "done" /\ calls[c].result # "none")

\* A call answered by nothing but 429 ended at the cap.
C36_Witness ==
  \E c \in Callers :
    /\ calls[c].pc = "done"
    /\ \E d \in Callers \ {c} : calls[d].n429 = 1
    /\ calls[c].max_retries = MaxRetries
    /\ calls[c].n429 = MaxRetries + 1
    /\ calls[c].attempts = MaxRetries + 1
    /\ calls[c].result = "RetriesExhausted"

\* C38: every HTTP attempt, each retry made after a backoff or Retry-After
\* sleep included, is sent with the client's credential, which at the moment
\* of sending has not reached token_expires_at (expiry minus the margin).
C38_AttemptsCarryFreshToken ==
  [][\A c \in Callers :
       calls'[c].attempts = calls[c].attempts + 1 =>
         /\ client'.token_left > 0
         /\ calls'[c].token = client'.access_token]_gvars

\* ---- the store, again
\* C34: update_message changes, in the row of its id, the columns passed
\* to it and updated_at, which does not decrease; the columns not passed,
\* message_id, channel and created_at of that row, and every other row stay
\* as they were.
C34_PartialUpdate ==
  [][rows' # rows =>
       LET a == Val(called') IN
         /\ DOMAIN rows' = DOMAIN rows
         /\ \A j \in DOMAIN rows \ {a.id} : rows'[j] = rows[j]
         /\ a.id \in DOMAIN rows =>
              LET old == rows[a.id]
                  new == rows'[a.id] IN
                /\ new.message_id = old.message_id
                /\ new.channel = old.channel
                /\ new.created_at = old.created_at
                /\ new.updated_at >= old.updated_at
                /\ new.updated_at = now
                /\ new.status =
                     IF IsNone(a.status) THEN old.status ELSE Val(a.status)
                /\ new.jira_payload_json =
                     IF IsNone(a.jira_payload) THEN old.jira_payload_json
                     ELSE a.jira_payload
                /\ new.n8n_response_code =
                     IF IsNone(a.n8n_code) THEN old.n8n_response_code
                     ELSE a.n8n_code
                /\ new.n8n_response_body =
                     IF IsNone(a.n8n_body) THEN old.n8n_response_body
                     ELSE a.n8n_body
                /\ new.error = IF IsNone(a.error) THEN old.error ELSE a.error]_<<rows, called>>

\* The status alone was passed, a second after the row was written: the
\* row has the new status and a later updated_at, and still its payload,
\* code, body and error; a second row is stored.
C34_Witness ==
  /\ called = Some([id |-> 1, status |-> Some("queued"), jira_payload |-> None,
                    n8n_code |-> None, n8n_body |-> None, error |-> None])
  /\ DOMAIN rows = UpdateIds
  /\ rows[1].status = "queued"
  /\ rows[1].error = Some(FaultText)
  /\ rows[1].jira_payload_json = Some("p1")
  /\ rows[1].n8n_response_code = Some(400)
  /\ rows[1].updated_at > rows[1].created_at

\* ---- the scheduler
\* C37: every execution of a job whose config was given with start and end
\* dates unset extracts the window from one hour before its own start up to
\* its own start, the second and later executions included.
C37_WindowFollowsExecution ==
  (/\ scheduler.pc = "added"
   /\ IsNone(scheduler.given.start_date)
   /\ IsNone(scheduler.given.end_date)) =>
    \A i \in 1..Len(scheduler.executions) :
      LET e == scheduler.executions[i] IN
        /\ e.start_date = Some(e.at - SecondsPerHour)
        /\ e.end_date = Some(e.at)

====
